---- MODULE Spec2Model ----
(***************************************************************************)
(* skrobak: the strategy cascade (scrape), the strategy executor           *)
(* (executeStrategy), the retry wrapper (withRetry) and the three          *)
(* mechanism executors, as one state machine for a single scrape call.     *)
(*                                                                         *)
(* An optional value of the TypeScript source (a field that may be         *)
(* undefined) is a sequence of length 0 (None) or 1 (Some(v)).             *)
(* Loop variables keep the source's 0-based values: index and attempt.     *)
(***************************************************************************)
EXTENDS Integers, Sequences, FiniteSets, TLC

VARIABLES
  config,     \* the ScrapeConfig of the call (never changed by the code)
  pc,         \* position of the single flow of control
  index,      \* scrape: loop variable of strategies.entries()
  retrying,   \* withRetry: TRUE in the retry loop, FALSE on the `return fn()` path
  attempt,    \* withRetry: loop variable
  error,      \* the error in flight (thrown, not yet caught by the caller)
  lastError,  \* withRetry: lastError
  result,     \* the value scrape resolved with
  thrown,     \* the value scrape rejected with
  contexts,   \* browser contexts: [created: how many so far, open: the ids not closed]
  context,    \* executeBrowserMechanism: the context of the attempt in flight (0: none)
  pending,    \* executeBrowserMechanism: what the try block threw, held by the catch block
  validated,  \* the latest attempt's call of validateResponse: its mechanism tag, what it returned
  received,   \* what fetch, page.goto or the custom function resolved with in the latest attempt
  options,    \* executeStrategy: the RequestOptions of the strategy being executed
  cleaned,    \* the caller: TRUE once it has invoked the cleanup() of the result
  trace,      \* what happened so far, in order
  cachedDollar, \* the fetch result: cached$, the parser once load() has built it
  loads,      \* the fetch result: how many times load(html) was called
  got,        \* the caller: what each access of result.$ returned, in order
  args,       \* a call of calculateRetryDelay or getRandomFrom on its own: the arguments
  out,        \* what that call returned
  browsers,   \* the module's Map of engine to browser, in insertion order
  callers,    \* the concurrent calls of getBrowser: where each one is
  closer,     \* the call of closeAllBrowsers: where it is
  launched,   \* how many browsers launch() has created so far
  launches,   \* per engine, how many of them since browsers was last cleared
  closes,     \* how many times browsers was cleared
  closed,     \* the browsers close() was called on
  urls,            \* scrapeMany: the initial URL list
  manyConfig,      \* scrapeMany: scrapeManyConfig, with what its callbacks do
  queue,           \* scrapeMany: the Set `queue`, in insertion order
  processed,       \* scrapeMany: the Set `processed`
  discoveredCount, \* scrapeMany: counter
  succeededCount,  \* scrapeMany: counter
  failedCount,     \* scrapeMany: counter
  currentIndex,    \* scrapeMany: counter
  mpc,             \* scrapeMany: where the call is
  url,             \* scrapeMany: the URL of the current iteration
  stats,           \* scrapeMany: the snapshot createStats() took in the current iteration
  manyResult,      \* scrapeMany: what scrape resolved with in the current iteration
  manyError,       \* scrapeMany: what the outer catch caught in the current iteration
  raised,          \* scrapeMany: TRUE when onSuccess raised in the current iteration
  spins,           \* scrapeMany: iterations that took the `continue` of an empty URL
  manyReturned,    \* scrapeMany: the ScrapeManyResult returned
  events           \* scrapeMany: what happened so far, in order

\* The variables of a call of scrape.
scrapeVars == <<config, pc, index, retrying, attempt, error, lastError, result,
                thrown, contexts, context, pending, validated, received, options, cleaned, trace,
                cachedDollar, loads, got>>

\* The variables of the `$` accessor of a fetch result.
dollarVars == <<cachedDollar, loads, got>>

\* The variables of a call of a pure function.
pureVars == <<args, out>>

\* The variables of the browser cache.
browserVars == <<browsers, callers, closer, launched, launches, closes, closed>>

\* The variables of a call of scrapeMany.
manyVars == <<urls, manyConfig, queue, processed, discoveredCount, succeededCount,
              failedCount, currentIndex, mpc, url, stats, manyResult, manyError,
              raised, spins, manyReturned, events>>

\* What a call of scrape leaves alone.
notScrapeVars == <<pureVars, browserVars, manyVars>>

\* What a call of a pure function leaves alone.
notPureVars == <<scrapeVars, browserVars, manyVars>>

\* What getBrowser and closeAllBrowsers leave alone.
notBrowserVars == <<scrapeVars, pureVars, manyVars>>

\* What a call of scrapeMany leaves alone; the calls of scrape it makes are
\* taken by their outcome.
notManyVars == <<scrapeVars, pureVars, browserVars>>

vars == <<scrapeVars, pureVars, browserVars, manyVars>>

----------------------------------------------------------------------------
(* Bounds of the model *)

MaxStrategies == 2
MaxRetryCount == 1

\* The most mechanism attempts one call of scrape can come to:
\* strategies.length * (retryConfig.count + 1).
MaxAttempts == 4

\* The largest attempt number and base delay calculateRetryDelay is called with.
MaxAttemptNumber == 4
MaxBaseDelay == 4

\* The longest collection getRandomFrom is called with.
MaxPoolSize == 3

\* How many calls of getBrowser run concurrently, and how many times
\* closeAllBrowsers is called.
MaxCallers == 2
MaxCloses == 1

\* How many times the caller reads result.$.
MaxAccesses == 2

\* scrapeMany: the longest initial URL list and the longest array handed to
\* addUrls, the most URLs the two hold together, and how many iterations may
\* take the `continue` of an empty URL.
MaxUrls == 2
MaxQueued == 3
MaxSpins == 1

\* Math.random() is drawn from { 0, 1/R, ..., (R-1)/R } with R = RandomResolution.
RandomResolution == 2

----------------------------------------------------------------------------
(* Values *)

None == << >>
Some(v) == << v >>
IsSome(o) == Len(o) = 1
Get(o) == o[1]

Mechanisms == {"fetch", "browser", "custom"}

RetryTypes == {"exponential", "linear", "constant"}

HookNames == {"onRetryAttempt", "onRetryExhausted", "onStrategyFailed", "onAllStrategiesFailed"}

\* The status codes a response carries in the model: one success, one client
\* error.
Statuses == {200, 500}

\* What a custom function may resolve with.
CustomResponses == {"null", "undefined", "false", "0", "", "object"}

\* What a configured validateResponse may do.
ValidatorOutcomes == {"true", "false", "raise"}

\* defaults.json
DefaultRetryDelay == 5000

DefaultRetryType == "exponential"

DefaultRetryStatusCodes == {408, 429, 500, 502, 503, 504}

\* new Error(...) / new HttpError(...), tagged with the attempt that raised it
\* so that two errors of different attempts are different values.
\* `context` is the browser context the raising attempt had opened (0: none).
NewError(kind, statusCode) ==
  [kind |-> kind, statusCode |-> statusCode, index |-> index, call |-> attempt + 1,
   context |-> context, raisedBy |-> "attempt"]

\* The identity of an error object: the attempt that created it. A hook's
\* context is recorded with the identity of the error it was handed.
ErrorId(e) == [index |-> e.index, call |-> e.call, raisedBy |-> e.raisedBy]

----------------------------------------------------------------------------
(* Pure functions *)

\* Mutant of calculateRetryDelay: a retry type outside RetryType gives the
\* constant delay.
calculateRetryDelayDefaultConstant(a, baseDelay, retryType) ==
  CASE retryType = "exponential" -> baseDelay * 2 ^ a
    [] retryType = "linear" -> baseDelay * (a + 1)
    [] retryType = "constant" -> baseDelay
    [] OTHER -> baseDelay

\* Mutant of calculateRetryDelay: the attempt number is taken as counted from 1.
calculateRetryDelayFromOne(a, baseDelay, retryType) ==
  CASE retryType = "exponential" -> baseDelay * 2 ^ (a + 1)
    [] retryType = "linear" -> baseDelay * (a + 2)
    [] retryType = "constant" -> baseDelay
    [] OTHER -> baseDelay * 2 ^ (a + 1)

calculateRetryDelay(a, baseDelay, retryType) ==
  CASE retryType = "exponential" -> baseDelay * 2 ^ a
    [] retryType = "linear" -> baseDelay * (a + 1)
    [] retryType = "constant" -> baseDelay
    [] OTHER -> baseDelay * 2 ^ a

\* The values Math.random() takes in the model: random / RandomResolution.
RandomDraws == 0..(RandomResolution - 1)

\* Mutant of getRandomFrom: the index is rounded to the nearest integer, so it
\* may be items.length, where the array has no element.
getRandomFromRounded(items, random) ==
  IF ~IsSome(items) \/ Len(Get(items)) = 0
    THEN None
    ELSE LET i == ((2 * random * Len(Get(items)) + RandomResolution) \div (2 * RandomResolution)) + 1
         IN IF i > Len(Get(items)) THEN None ELSE Some(Get(items)[i])

\* getRandomFrom(items), with the value Math.random() returned;
\* Math.floor(Math.random() * items.length) is (random * length) \div RandomResolution.
getRandomFrom(items, random) ==
  IF ~IsSome(items) \/ Len(Get(items)) = 0
    THEN None
    ELSE Some(Get(items)[((random * Len(Get(items))) \div RandomResolution) + 1])

----------------------------------------------------------------------------
(* Inputs *)

\* Strategy lists whose entries take useProxy from the given values.
StrategyListsOf(useProxies) ==
  UNION { [1..n -> [mechanism : Mechanisms, useProxy : useProxies]] : n \in 0..MaxStrategies }

\* Strategy lists that leave useProxy out.
StrategyLists == StrategyListsOf({None})

\* Strategy lists with useProxy absent, false or true, each mechanism at most once.
StrategyListsUseProxy ==
  { l \in StrategyListsOf({None, Some(FALSE), Some(TRUE)}) :
      \A i, j \in DOMAIN l : i # j => l[i].mechanism # l[j].mechanism }

\* options.proxies, .userAgents and .viewports: all absent.
NoPools == [proxies |-> None, userAgents |-> None, viewports |-> None]

\* Pools that are absent, empty, singletons, or of two elements.
PoolInputs ==
  { NoPools,
    [proxies |-> Some(<< >>), userAgents |-> Some(<< >>), viewports |-> Some(<< >>)],
    [proxies |-> Some(<<"proxy1", "proxy2">>), userAgents |-> Some(<<"ua1">>),
     viewports |-> Some(<<"viewport1">>)],
    [proxies |-> Some(<<"proxy1">>), userAgents |-> Some(<<"ua1", "ua2">>),
     viewports |-> None] }

\* The lowest retry count below zero is -MaxNegativeCount.
MaxNegativeCount == 1

\* retryConfig.delay, .type and .statusCodes: all left to defaults.json, or all set.
RetrySettings ==
  { [delay |-> None, type |-> None, statusCodes |-> None],
    [delay |-> Some(100), type |-> Some("linear"), statusCodes |-> Some({403})] }

RetryInputs ==
  {None} \cup
  { Some([count |-> c, delay |-> r.delay, type |-> r.type, statusCodes |-> r.statusCodes]) :
      c \in 0..MaxRetryCount, r \in RetrySettings }

\* RetryConfig.count is a number: a count below zero is a RetryConfig too.
NegativeCountInputs ==
  { Some([count |-> -c, delay |-> r.delay, type |-> r.type, statusCodes |-> r.statusCodes]) :
      c \in 1..MaxNegativeCount, r \in RetrySettings }

HookInputs == { {}, HookNames }

\* config.custom.fn is read by a custom strategy only: a config without one
\* is drawn without the function. The strategies and the retry count of a
\* config together stay within MaxAttempts mechanism attempts.
ConfigsOf(lists, retries, validators, hooks, pools, raising) ==
  { c \in [ strategies : {None} \cup { Some(l) : l \in lists },
            retries : retries,
            validateResponse : validators,
            customFn : BOOLEAN,
            hooks : hooks,
            pools : pools,
            raisingHooks : raising ] :
      /\ c.customFn =>
           /\ IsSome(c.strategies)
           /\ \E i \in DOMAIN Get(c.strategies) : Get(c.strategies)[i].mechanism = "custom"
      /\ (IsSome(c.strategies) /\ IsSome(c.retries)) =>
           Len(Get(c.strategies)) * (Get(c.retries).count + 1) <= MaxAttempts }

\* The configs of a call that leaves the pools and useProxy out.
Configs(raising) ==
  ConfigsOf(StrategyLists, RetryInputs, BOOLEAN, HookInputs, {NoPools}, raising)

\* The configs of a call whose retry count may be below zero.
ConfigsAnyCount ==
  ConfigsOf(StrategyLists, RetryInputs \cup NegativeCountInputs, BOOLEAN, HookInputs,
            {NoPools}, { {} })

\* The configs of a call with pools and useProxy, without validator and hooks.
ConfigsWithPools ==
  ConfigsOf(StrategyListsUseProxy,
            { r \in RetryInputs :
                IsSome(r) => Get(r).count > 0 /\ ~IsSome(Get(r).delay) },
            {FALSE}, { {} }, PoolInputs, { {} })

\* RequestOptions with nothing selected.
NoOptions == [proxy |-> None, userAgent |-> None, viewport |-> None]

\* No pure function is being called on its own.
NoCall == args = [fn |-> "none"] /\ out = None

BrowserEngines == {"chromium", "firefox", "webkit"}

Callers == 1..MaxCallers

\* A caller that has not called getBrowser yet.
NotCalled == [pc |-> "idle", engine |-> "none", browser |-> 0, calledAt |-> 0, returnedAt |-> 0]

\* The browser cache as the module creates it: `new Map()`, nothing launched.
NoBrowsers ==
  /\ browsers = << >>
  /\ callers = [p \in Callers |-> NotCalled]
  /\ closer = [pc |-> "idle", position |-> 0]
  /\ launched = 0
  /\ launches = [e \in BrowserEngines |-> 0]
  /\ closes = 0
  /\ closed = {}

\* The stats of a scrapeMany call that has not taken a snapshot.
NoStats ==
  [initial |-> 0, discovered |-> 0, processed |-> 0, remaining |-> 0,
   succeeded |-> 0, failed |-> 0]

\* No call of scrapeMany is under way.
NoMany ==
  /\ urls = << >>
  /\ manyConfig = [onSuccess |-> "absent", onError |-> "absent", newUrls |-> None,
                   delays |-> None]
  /\ queue = << >>
  /\ processed = {}
  /\ discoveredCount = 0
  /\ succeededCount = 0
  /\ failedCount = 0
  /\ currentIndex = 0
  /\ mpc = "idle"
  /\ url = ""
  /\ stats = NoStats
  /\ manyResult = None
  /\ manyError = None
  /\ raised = FALSE
  /\ spins = 0
  /\ manyReturned = None
  /\ events = << >>

InitOf(configs) ==
  /\ NoCall
  /\ NoBrowsers
  /\ NoMany
  /\ config \in configs
  /\ pc = "scrape"
  /\ index = 0
  /\ retrying = FALSE
  /\ attempt = 0
  /\ error = None
  /\ lastError = None
  /\ result = None
  /\ thrown = None
  /\ contexts = [created |-> 0, open |-> {}]
  /\ context = 0
  /\ pending = None
  /\ validated = None
  /\ received = None
  /\ options = NoOptions
  /\ cleaned = FALSE
  /\ trace = << >>
  /\ cachedDollar = None
  /\ loads = 0
  /\ got = << >>

InitWith(raising) == InitOf(Configs(raising))

\* Observer hooks that return normally.
Init == InitWith({ {} })

\* Observer hooks that may raise.
InitRaisingHooks == InitWith(SUBSET HookNames)

\* Pools to select from.
InitPools == InitOf(ConfigsWithPools)

\* Retry counts of either sign.
InitAnyCount == InitOf(ConfigsAnyCount)

----------------------------------------------------------------------------
(* Helpers of the actions *)

strategies == Get(config.strategies)

strategy == strategies[index + 1]

retryConfig == Get(config.retries)

\* Mutant of CallHook: onStrategyFailed is never called.
CallHookSkipsStrategyFailed(name, ctx) ==
  IF name \in config.hooks /\ name # "onStrategyFailed"
    THEN << [type |-> "hook", name |-> name, ctx |-> ctx] >>
    ELSE << >>

\* Mutant of CallHook: onAllStrategiesFailed is never called.
CallHookSkipsAllFailed(name, ctx) ==
  IF name \in config.hooks /\ name # "onAllStrategiesFailed"
    THEN << [type |-> "hook", name |-> name, ctx |-> ctx] >>
    ELSE << >>

\* Mutant of CallHook: onRetryExhausted is never called.
CallHookSkipsRetryExhausted(name, ctx) ==
  IF name \in config.hooks /\ name # "onRetryExhausted"
    THEN << [type |-> "hook", name |-> name, ctx |-> ctx] >>
    ELSE << >>

\* hooks?.name?.(ctx): the call, when the hook is registered
CallHook(name, ctx) ==
  IF name \in config.hooks
    THEN << [type |-> "hook", name |-> name, ctx |-> ctx] >>
    ELSE << >>

HookRaises(name) == name \in config.hooks /\ name \in config.raisingHooks

HookError(name) ==
  [kind |-> name, statusCode |-> 0, index |-> index, call |-> attempt + 1, context |-> 0,
   raisedBy |-> "hook"]

\* `let lastError: unknown` before any assignment: undefined. As a thrown
\* value it belongs to no attempt.
Undefined ==
  [kind |-> "undefined", statusCode |-> 0, index |-> index, call |-> 0, context |-> 0,
   raisedBy |-> "none"]

\* fn() rejects with e: into withRetry's catch block, or, on the `return fn()`
\* path, straight through executeStrategy into scrape's catch block.
FnThrows(e) ==
  /\ error' = Some(e)
  /\ pc' = IF retrying THEN "withRetryCatch" ELSE "scrapeCatch"

\* Mutant of FnReturns: the loop of scrape goes on after a success.
FnReturnsLoopGoesOn(r) ==
  /\ result' = Some([mechanism |-> r.mechanism, response |-> r.response,
                      context |-> r.context, index |-> index, call |-> attempt + 1])
  /\ pc' = "executeStrategy"

\* fn() resolves with r: withRetry, executeStrategy and scrape return it.
\* The result is tagged with the attempt that produced it.
FnReturns(r) ==
  /\ result' = Some([mechanism |-> r.mechanism, response |-> r.response,
                      context |-> r.context, index |-> index, call |-> attempt + 1])
  /\ pc' = "returned"

\* Mutant of FnEvent: the options are drawn again for the call.
FnEventFreshOptions(m) ==
  [type |-> "fn", mechanism |-> m, index |-> index, call |-> attempt + 1,
   options |-> [proxy |-> IF IsSome(strategy.useProxy) /\ Get(strategy.useProxy)
                            THEN getRandomFrom(config.pools.proxies, RandomResolution - 1)
                            ELSE None,
                userAgent |-> getRandomFrom(config.pools.userAgents, RandomResolution - 1),
                viewport |-> getRandomFrom(config.pools.viewports, RandomResolution - 1)]]

\* One call of fn: executeMechanism(url, config, strategy, options).
FnEvent(m) ==
  [type |-> "fn", mechanism |-> m, index |-> index, call |-> attempt + 1, options |-> options]

\* Mutant of StatusRejected: no status is rejected.
StatusRejectedNever(status) == FALSE

\* executeMechanism, after the executor returned: the status check.
StatusRejected(status) == status < 200 \/ status >= 300

\* A response as the validator and the caller see it.
Response(status, value) == [status |-> status, value |-> value]

\* config.options?.validateResponse, when configured, called by an executor:
\* the outcomes it may have, and the mechanism tag of the context it is called with.
ValidatorChoices == IF config.validateResponse THEN ValidatorOutcomes ELSE {"none"}

\* Mutant of ValidateCall: every executor passes the tag of the fetch executor.
ValidateCallFetchTag(m, v) ==
  validated' = IF v = "none" THEN None ELSE Some([mechanism |-> "fetch", returned |-> v])

ValidateCall(m, v) ==
  validated' = IF v = "none" THEN None ELSE Some([mechanism |-> m, returned |-> v])

----------------------------------------------------------------------------
(* scrape *)

\* Mutant of NoStrategies: only an absent list is refused.
NoStrategiesAbsentOnly == ~IsSome(config.strategies)

\* `!strategies?.length`
NoStrategies == ~IsSome(config.strategies) \/ Len(strategies) = 0

\* Mutant of IsLastStrategy: every failure is taken for the last one.
IsLastStrategyAlways == TRUE

\* Mutant of IsLastStrategy: the first strategy is taken for the last one.
IsLastStrategyFirst == index = 0

\* `index === strategies.length - 1`
IsLastStrategy == index = Len(strategies) - 1

\* scrape, up to the loop: the guard on config.strategies.
Scrape ==
  /\ pc = "scrape"
  /\ IF NoStrategies
       THEN /\ thrown' = Some([kind |-> "noStrategiesProvided", statusCode |-> 0,
                               index |-> 0, call |-> 0, context |-> 0,
                               raisedBy |-> "scrape"])
            /\ pc' = "rejected"
       ELSE /\ pc' = "executeStrategy"
            /\ UNCHANGED thrown
  /\ index' = 0
  /\ UNCHANGED <<notScrapeVars, dollarVars, config, cleaned, received, options, retrying, attempt, error, lastError, result,
                 contexts, context, pending, validated, trace>>

\* Mutant of NoRetry: a count of 0 enters the retry loop.
NoRetryAbsentOnly == ~IsSome(config.retries)

\* `!retryConfig?.count`
NoRetry == ~IsSome(config.retries) \/ retryConfig.count = 0

\* Mutant of UseProxy: the proxy is selected whatever useProxy says.
UseProxyAlways == TRUE

\* `strategy.useProxy ?`
UseProxy == IsSome(strategy.useProxy) /\ Get(strategy.useProxy)

\* executeStrategy: the RequestOptions, with the three values of Math.random().
RequestOptions(r1, r2, r3) ==
  [proxy |-> IF UseProxy THEN getRandomFrom(config.pools.proxies, r1) ELSE None,
   userAgent |-> getRandomFrom(config.pools.userAgents, r2),
   viewport |-> getRandomFrom(config.pools.viewports, r3)]

\* `attempt <= retryConfig.count` with attempt = 0, on entering the loop.
LoopEntered == 0 <= retryConfig.count

\* Mutant of ExecuteStrategy: the attempt counter goes on from the strategy before.
ExecuteStrategyKeepsAttempt ==
  /\ pc = "executeStrategy"
  /\ \E r1, r2, r3 \in RandomDraws :
       /\ options' = RequestOptions(r1, r2, r3)
       /\ trace' = Append(trace, [type |-> "executeStrategy", index |-> index,
                                  options |-> RequestOptions(r1, r2, r3)])
  /\ retrying' = ~NoRetry
  /\ attempt' = IF attempt > 0 THEN attempt - 1 ELSE 0
  /\ lastError' = None
  /\ error' = None
  /\ pc' = IF NoRetry \/ LoopEntered THEN "fn" ELSE "withRetryExhausted"
  /\ UNCHANGED <<notScrapeVars, dollarVars, config, cleaned, received, index, result, thrown, contexts, context, pending,
                 validated>>

\* executeStrategy and the head of withRetry: `if (!retryConfig?.count) return fn()`,
\* otherwise the loop, which is left at once when its condition is false.
ExecuteStrategy ==
  /\ pc = "executeStrategy"
  /\ \E r1, r2, r3 \in RandomDraws :
       /\ options' = RequestOptions(r1, r2, r3)
       /\ trace' = Append(trace, [type |-> "executeStrategy", index |-> index,
                                  options |-> RequestOptions(r1, r2, r3)])
  /\ retrying' = ~NoRetry
  /\ attempt' = 0
  /\ lastError' = None
  /\ error' = None
  /\ pc' = IF NoRetry \/ LoopEntered THEN "fn" ELSE "withRetryExhausted"
  /\ UNCHANGED <<notScrapeVars, dollarVars, config, cleaned, received, index, result, thrown, contexts, context, pending,
                 validated>>

\* scrape's catch block. The trace notes that the block was entered, and with
\* which error; `error` keeps that error until the next strategy starts.
ScrapeCatch ==
  /\ pc = "scrapeCatch"
  /\ LET e == Get(error)
         failed == CallHook("onStrategyFailed",
                     [error |-> ErrorId(e), strategy |-> strategy, strategyIndex |-> index,
                      totalStrategies |-> Len(strategies)])
         allFailed == CallHook("onAllStrategiesFailed",
                        [lastError |-> ErrorId(e), strategies |-> strategies,
                         totalAttempts |-> Len(strategies)])
         caught == << [type |-> "caught", index |-> index, error |-> ErrorId(e)] >>
     IN IF HookRaises("onStrategyFailed")
          THEN /\ trace' = trace \o caught \o failed
               /\ thrown' = Some(HookError("onStrategyFailed"))
               /\ pc' = "rejected"
               /\ UNCHANGED index
          ELSE IF IsLastStrategy
            THEN /\ trace' = trace \o caught \o failed \o allFailed
                 /\ thrown' = IF HookRaises("onAllStrategiesFailed")
                                THEN Some(HookError("onAllStrategiesFailed"))
                                ELSE Some(e)
                 /\ pc' = "rejected"
                 /\ UNCHANGED index
            ELSE /\ trace' = trace \o caught \o failed
                 /\ index' = index + 1
                 /\ pc' = "executeStrategy"
                 /\ UNCHANGED thrown
  /\ UNCHANGED <<notScrapeVars, dollarVars, config, cleaned, received, options, error, retrying, attempt, lastError, result, contexts, context, pending,
                 validated>>

----------------------------------------------------------------------------
(* withRetry *)

delay == IF IsSome(retryConfig.delay) THEN Get(retryConfig.delay) ELSE DefaultRetryDelay

type == IF IsSome(retryConfig.type) THEN Get(retryConfig.type) ELSE DefaultRetryType

retriableStatusCodes ==
  IF IsSome(retryConfig.statusCodes) THEN Get(retryConfig.statusCodes)
                                     ELSE DefaultRetryStatusCodes

\* Mutant of NotRetriable: a validation failure ends the retries as well.
NotRetriableValidation(e) ==
  \/ e.kind = "responseValidationFailed"
  \/ e.kind = "HttpError" /\ e.statusCode \notin retriableStatusCodes

\* Mutant of NotRetriable: the status of an HttpError is not looked at.
NotRetriableNever(e) == FALSE

\* `error instanceof HttpError && !retriableStatusCodes.includes(error.statusCode)`
NotRetriable(e) == e.kind = "HttpError" /\ e.statusCode \notin retriableStatusCodes

\* Mutant of LastError: the first error is kept.
LastErrorKeepsFirst(e) == IF IsSome(lastError) THEN lastError ELSE Some(e)

\* `lastError = error`
LastError(e) == Some(e)

\* Mutant of RetriesLeft: one retry fewer.
RetriesLeftOneFewer == attempt + 1 < retryConfig.count

\* `attempt < retryConfig.count`
RetriesLeft == attempt < retryConfig.count

\* The catch block of the retry loop.
WithRetryCatch ==
  /\ pc = "withRetryCatch"
  /\ LET e == Get(error)
         retryDelay == calculateRetryDelay(attempt, delay, type)
         retryAttempt == CallHook("onRetryAttempt",
                           [error |-> ErrorId(e), attempt |-> attempt + 1,
                            maxAttempts |-> retryConfig.count + 1,
                            nextRetryDelay |-> retryDelay])
     IN /\ lastError' = LastError(e)
        /\ IF NotRetriable(e)
             THEN /\ pc' = "scrapeCatch"
                  /\ UNCHANGED <<error, trace, attempt>>
             ELSE IF RetriesLeft
               THEN /\ trace' = trace \o retryAttempt
                    /\ IF HookRaises("onRetryAttempt")
                         THEN /\ error' = Some(HookError("onRetryAttempt"))
                              /\ pc' = "scrapeCatch"
                         ELSE /\ error' = None
                              /\ pc' = "sleep"
                    /\ UNCHANGED attempt
               ELSE /\ attempt' = attempt + 1
                    /\ error' = None
                    /\ pc' = "withRetryExhausted"
                    /\ UNCHANGED trace
  /\ UNCHANGED <<notScrapeVars, dollarVars, config, cleaned, received, options, index, retrying, result, thrown, contexts, context, pending,
                 validated>>

\* `await sleep(retryDelay)`, then the loop's attempt++.
Sleep ==
  /\ pc = "sleep"
  /\ trace' = Append(trace, [type |-> "sleep", ms |-> calculateRetryDelay(attempt, delay, type)])
  /\ attempt' = attempt + 1
  /\ pc' = "fn"
  /\ UNCHANGED <<notScrapeVars, dollarVars, config, cleaned, received, options, index, retrying, error, lastError, result, thrown,
                 contexts, context, pending, validated>>

\* The value of lastError after the loop.
LastThrown == IF IsSome(lastError) THEN Get(lastError) ELSE Undefined

\* Mutant of WithRetryExhausted: one more attempt is made after onRetryExhausted.
WithRetryExhaustedTriesAgain ==
  /\ pc = "withRetryExhausted"
  /\ trace' = trace \o CallHook("onRetryExhausted",
                         [error |-> ErrorId(LastThrown), totalAttempts |-> retryConfig.count + 1])
  /\ error' = IF HookRaises("onRetryExhausted")
                THEN Some(HookError("onRetryExhausted"))
                ELSE Some(LastThrown)
  /\ pc' = IF attempt = retryConfig.count + 1 THEN "fn" ELSE "scrapeCatch"
  /\ UNCHANGED <<notScrapeVars, dollarVars, config, cleaned, received, options, index, retrying, attempt, lastError, result, thrown,
                 contexts, context, pending, validated>>

\* After the loop: onRetryExhausted, then `throw lastError`.
WithRetryExhausted ==
  /\ pc = "withRetryExhausted"
  /\ trace' = trace \o CallHook("onRetryExhausted",
                         [error |-> ErrorId(LastThrown), totalAttempts |-> retryConfig.count + 1])
  /\ error' = IF HookRaises("onRetryExhausted")
                THEN Some(HookError("onRetryExhausted"))
                ELSE Some(LastThrown)
  /\ pc' = "scrapeCatch"
  /\ UNCHANGED <<notScrapeVars, dollarVars, config, cleaned, received, options, index, retrying, attempt, lastError, result, thrown,
                 contexts, context, pending, validated>>

----------------------------------------------------------------------------
(* Mechanism executors, each with executeMechanism's dispatch and status check *)

\* What fetch(url, fetchOptions) may do: reject, resolve with nothing, or
\* resolve with a response of some status.
FetchOutcomes ==
  { <<"rejects", 0>>, <<"nothing", 0>> } \cup { <<"response", st>> : st \in Statuses }

\* Mutant of ExecuteFetchMechanism: a validator that returned true settles
\* the attempt, and the status is checked only without a validator.
ExecuteFetchMechanismValidatorOverridesStatus ==
  /\ pc = "fn"
  /\ strategy.mechanism = "fetch"
  /\ trace' = Append(trace, FnEvent("fetch"))
  /\ \E o \in FetchOutcomes, v \in ValidatorChoices :
       CASE o[1] = "rejects" ->
              /\ received' = None
              /\ validated' = None
              /\ FnThrows(NewError("fetchRejected", 0))
              /\ UNCHANGED result
         [] o[1] = "nothing" ->
              /\ received' = Some(Response(0, "null"))
              /\ validated' = None
              /\ FnThrows(NewError("noResponseReceived", 0))
              /\ UNCHANGED result
         [] OTHER ->
              /\ received' = Some(Response(o[2], "body"))
              /\ ValidateCall("fetch", v)
              /\ CASE v = "raise" ->
                        FnThrows(NewError("validatorRaised", 0)) /\ UNCHANGED result
                   [] v = "false" ->
                        FnThrows(NewError("responseValidationFailed", 0)) /\ UNCHANGED result
                   [] OTHER ->
                        IF v = "none" /\ StatusRejected(o[2])
                          THEN FnThrows(NewError("HttpError", o[2])) /\ UNCHANGED result
                          ELSE /\ FnReturns([mechanism |-> "fetch",
                                             response |-> Response(o[2], "body"),
                                             context |-> 0])
                               /\ UNCHANGED error
  /\ UNCHANGED <<notScrapeVars, dollarVars, config, cleaned, options, index, retrying, attempt, lastError, thrown,
                 contexts, context, pending>>

\* executeMechanism, case 'fetch': executeFetchMechanism, then the status check.
ExecuteFetchMechanism ==
  /\ pc = "fn"
  /\ strategy.mechanism = "fetch"
  /\ trace' = Append(trace, FnEvent("fetch"))
  /\ \E o \in FetchOutcomes, v \in ValidatorChoices :
       CASE o[1] = "rejects" ->
              /\ received' = None
              /\ validated' = None
              /\ FnThrows(NewError("fetchRejected", 0))
              /\ UNCHANGED result
         [] o[1] = "nothing" ->
              /\ received' = Some(Response(0, "null"))
              /\ validated' = None
              /\ FnThrows(NewError("noResponseReceived", 0))
              /\ UNCHANGED result
         [] OTHER ->
              /\ received' = Some(Response(o[2], "body"))
              /\ ValidateCall("fetch", v)
              /\ CASE v = "raise" ->
                        FnThrows(NewError("validatorRaised", 0)) /\ UNCHANGED result
                   [] v = "false" ->
                        FnThrows(NewError("responseValidationFailed", 0)) /\ UNCHANGED result
                   [] OTHER ->
                        IF StatusRejected(o[2])
                          THEN FnThrows(NewError("HttpError", o[2])) /\ UNCHANGED result
                          ELSE /\ FnReturns([mechanism |-> "fetch",
                                             response |-> Response(o[2], "body"),
                                             context |-> 0])
                               /\ UNCHANGED error
  /\ UNCHANGED <<notScrapeVars, dollarVars, config, cleaned, options, index, retrying, attempt, lastError, thrown,
                 contexts, context, pending>>

\* What config.custom.fn(url, options) may do: reject, or resolve with a value.
CustomOutcomes == {"rejects"} \cup CustomResponses

\* Mutant of NoResponse: `!response`.
NoResponseFalsy(response) == response \in {"null", "undefined", "false", "0", ""}

\* `response === null || response === undefined`
NoResponse(response) == response \in {"null", "undefined"}

\* executeMechanism, case 'custom': executeCustomMechanism; no status to check.
ExecuteCustomMechanism ==
  /\ pc = "fn"
  /\ strategy.mechanism = "custom"
  /\ IF ~config.customFn
       THEN /\ trace' = Append(trace, FnEvent("custom"))
            /\ received' = None
            /\ validated' = None
            /\ FnThrows(NewError("customFetchNotProvided", 0))
            /\ UNCHANGED result
       ELSE /\ trace' = trace \o << FnEvent("custom"), [type |-> "customFn"] >>
            /\ \E o \in CustomOutcomes, v \in ValidatorChoices :
                 CASE o = "rejects" ->
                        /\ received' = None
                        /\ validated' = None
                        /\ FnThrows(NewError("customFnRejected", 0))
                        /\ UNCHANGED result
                   [] o # "rejects" /\ NoResponse(o) ->
                        /\ received' = Some(Response(0, o))
                        /\ validated' = None
                        /\ FnThrows(NewError("customFetchNoResponse", 0))
                        /\ UNCHANGED result
                   [] OTHER ->
                        /\ received' = Some(Response(0, o))
                        /\ ValidateCall("custom", v)
                        /\ CASE v = "raise" ->
                                  FnThrows(NewError("validatorRaised", 0)) /\ UNCHANGED result
                             [] v = "false" ->
                                  FnThrows(NewError("responseValidationFailed", 0))
                                  /\ UNCHANGED result
                             [] OTHER ->
                                  /\ FnReturns([mechanism |-> "custom",
                                                response |-> Response(0, o),
                                                context |-> 0])
                                  /\ UNCHANGED error
  /\ UNCHANGED <<notScrapeVars, dollarVars, config, cleaned, options, index, retrying, attempt, lastError, thrown,
                 contexts, context, pending>>

\* executeMechanism, case 'browser': executeBrowserMechanism up to the try
\* block. getBrowser or createContext may reject; otherwise a context is open.
ExecuteBrowserMechanism ==
  /\ pc = "fn"
  /\ strategy.mechanism = "browser"
  /\ \E created \in BOOLEAN :
       IF created
         THEN /\ contexts' = [created |-> contexts.created + 1,
                               open |-> contexts.open \cup {contexts.created + 1}]
              /\ context' = contexts.created + 1
              /\ pc' = "browserTry"
              /\ UNCHANGED error
         ELSE /\ FnThrows(NewError("createContextRejected", 0))
              /\ UNCHANGED <<contexts, context>>
  /\ trace' = Append(trace, FnEvent("browser"))
  /\ validated' = None
  /\ received' = None
  /\ UNCHANGED <<notScrapeVars, dollarVars, config, cleaned, options, index, retrying, attempt, lastError, result, thrown, pending>>

\* What the try block may meet: createPage rejects, page.goto rejects,
\* page.goto resolves with null, or with a response of some status.
BrowserOutcomes ==
  { <<"createPageRejected", 0>>, <<"gotoRejected", 0>>, <<"nothing", 0>> }
    \cup { <<"response", st>> : st \in Statuses }

\* The try block of executeBrowserMechanism; when it returns, the status
\* check of executeMechanism.
BrowserTry ==
  /\ pc = "browserTry"
  /\ \E o \in BrowserOutcomes, v \in ValidatorChoices :
       CASE o[1] \in {"createPageRejected", "gotoRejected"} ->
              /\ pending' = Some(NewError(o[1], 0))
              /\ pc' = "browserCatch"
              /\ UNCHANGED <<error, result, context, validated, received>>
         [] o[1] = "nothing" ->
              /\ received' = Some(Response(0, "null"))
              /\ pending' = Some(NewError("noResponseReceived", 0))
              /\ pc' = "browserCatch"
              /\ UNCHANGED <<error, result, context, validated>>
         [] OTHER ->
              /\ received' = Some(Response(o[2], "page"))
              /\ ValidateCall("browser", v)
              /\ CASE v = "raise" ->
                        /\ pending' = Some(NewError("validatorRaised", 0))
                        /\ pc' = "browserCatch"
                        /\ UNCHANGED <<error, result, context>>
                   [] v = "false" ->
                        /\ pending' = Some(NewError("responseValidationFailed", 0))
                        /\ pc' = "browserCatch"
                        /\ UNCHANGED <<error, result, context>>
                   [] OTHER ->
                        /\ context' = 0
                        /\ UNCHANGED pending
                        /\ IF StatusRejected(o[2])
                             THEN FnThrows(NewError("HttpError", o[2])) /\ UNCHANGED result
                             ELSE /\ FnReturns([mechanism |-> "browser",
                                                response |-> Response(o[2], "page"),
                                                context |-> context])
                                  /\ UNCHANGED error
  /\ UNCHANGED <<notScrapeVars, dollarVars, config, cleaned, options, index, retrying, attempt, lastError, thrown, contexts, trace>>

\* Mutant of CloseContext: the context is left open.
CloseContextForgotten(c) == contexts

\* `await context.close()`
CloseContext(c) == [contexts EXCEPT !.open = @ \ {c}]

\* The catch block of executeBrowserMechanism: `await context.close(); throw error`.
BrowserCatch ==
  /\ pc = "browserCatch"
  /\ contexts' = CloseContext(context)
  /\ FnThrows(Get(pending))
  /\ pending' = None
  /\ context' = 0
  /\ UNCHANGED <<notScrapeVars, dollarVars, config, cleaned, received, options, index, retrying, attempt, lastError, result, thrown, validated,
                 trace>>

----------------------------------------------------------------------------
(* The caller of scrape *)

\* Mutant of cleanup: the context is left open.
cleanupLeavesContext(r) == contexts

\* The cleanup of a browser result: `async () => await context.close()`
cleanup(r) == [contexts EXCEPT !.open = @ \ {r.context}]

\* The caller invokes result.cleanup() of the browser result scrape returned.
Cleanup ==
  /\ pc = "returned"
  /\ Get(result).mechanism = "browser"
  /\ ~cleaned
  /\ contexts' = cleanup(Get(result))
  /\ cleaned' = TRUE
  /\ UNCHANGED <<notScrapeVars, dollarVars, config, pc, index, retrying, attempt, error, lastError, result, thrown,
                 context, pending, validated, received, options, trace>>

\* Mutant of GetDollar: load(html) is called on every access.
GetDollarLoadsEveryTime == [cached |-> Some(loads + 1), loads |-> loads + 1]

\* The getter `$` of a fetch result: load(html) on the first access, cached$
\* from then on. A parser is named by the number of the load that built it.
GetDollar ==
  IF ~IsSome(cachedDollar)
    THEN [cached |-> Some(loads + 1), loads |-> loads + 1]
    ELSE [cached |-> cachedDollar, loads |-> loads]

\* The caller reads result.$ of the fetch result scrape returned.
AccessDollar ==
  /\ pc = "returned"
  /\ Get(result).mechanism = "fetch"
  /\ Len(got) < MaxAccesses
  /\ cachedDollar' = GetDollar.cached
  /\ loads' = GetDollar.loads
  /\ got' = Append(got, Get(GetDollar.cached))
  /\ UNCHANGED <<notScrapeVars, config, pc, index, retrying, attempt, error, lastError,
                 result, thrown, contexts, context, pending, validated, received, options,
                 cleaned, trace>>

----------------------------------------------------------------------------

Next ==
  \/ Scrape
  \/ ExecuteStrategy
  \/ ExecuteFetchMechanism
  \/ ExecuteCustomMechanism
  \/ ExecuteBrowserMechanism
  \/ BrowserTry
  \/ BrowserCatch
  \/ WithRetryCatch
  \/ Sleep
  \/ WithRetryExhausted
  \/ ScrapeCatch
  \/ Cleanup
  \/ AccessDollar

Spec == Init /\ [][Next]_vars

SpecRaisingHooks == InitRaisingHooks /\ [][Next]_vars

SpecPools == InitPools /\ [][Next]_vars

\* scrape when every await resolves or rejects: each attempt, each delay.
SpecFair == Init /\ [][Next]_vars /\ WF_vars(Next)

SpecAnyCount == InitAnyCount /\ [][Next]_vars

----------------------------------------------------------------------------
(* calculateRetryDelay and getRandomFrom, each called on its own *)

\* No call of scrape is under way.
NoScrape ==
  /\ config = [strategies |-> None, retries |-> None, validateResponse |-> FALSE,
               customFn |-> FALSE, hooks |-> {}, pools |-> NoPools, raisingHooks |-> {}]
  /\ pc = "idle"
  /\ index = 0
  /\ retrying = FALSE
  /\ attempt = 0
  /\ error = None
  /\ lastError = None
  /\ result = None
  /\ thrown = None
  /\ contexts = [created |-> 0, open |-> {}]
  /\ context = 0
  /\ pending = None
  /\ validated = None
  /\ received = None
  /\ options = NoOptions
  /\ cleaned = FALSE
  /\ trace = << >>
  /\ cachedDollar = None
  /\ loads = 0
  /\ got = << >>

\* The retry types a caller may pass: those of RetryType, and a value outside it.
RetryTypeInputs == RetryTypes \cup {"fibonacci"}

\* The arguments of calculateRetryDelay.
DelayCalls ==
  [fn : {"calculateRetryDelay"}, attempt : 0..MaxAttemptNumber, baseDelay : 0..MaxBaseDelay,
   retryType : RetryTypeInputs]

\* Collections of up to MaxPoolSize items, the same item twice allowed.
Collections == UNION { [1..n -> {"a", "b", "c"}] : n \in 0..MaxPoolSize }

\* The arguments of getRandomFrom, with the out Math.random() will return.
RandomCalls ==
  [fn : {"getRandomFrom"}, items : {None} \cup { Some(c) : c \in Collections },
   random : RandomDraws]

InitPure ==
  /\ NoScrape
  /\ NoBrowsers
  /\ NoMany
  /\ args \in DelayCalls \cup RandomCalls
  /\ out = None

\* calculateRetryDelay for two successive attempts: args.attempt and the next.
CalculateRetryDelay ==
  /\ args.fn = "calculateRetryDelay"
  /\ out = None
  /\ out' = Some(<< calculateRetryDelay(args.attempt, args.baseDelay, args.retryType),
                      calculateRetryDelay(args.attempt + 1, args.baseDelay, args.retryType) >>)
  /\ UNCHANGED <<notPureVars, args>>

GetRandomFrom ==
  /\ args.fn = "getRandomFrom"
  /\ out = None
  /\ out' = Some(getRandomFrom(args.items, args.random))
  /\ UNCHANGED <<notPureVars, args>>

NextPure ==
  \/ CalculateRetryDelay
  \/ GetRandomFrom

SpecPure == InitPure /\ [][NextPure]_vars

----------------------------------------------------------------------------
(* The browser cache: getBrowser and closeAllBrowsers *)

\* browsers.get(engine): the browser stored for the engine, 0 for undefined.
BrowsersGet(engine) ==
  IF \E i \in 1..Len(browsers) : browsers[i].engine = engine
    THEN LET i == CHOOSE j \in 1..Len(browsers) : browsers[j].engine = engine
         IN browsers[i].browser
    ELSE 0

\* browsers.set(engine, browser): a new key goes last, a key already there
\* keeps its place and takes the new value.
BrowsersSet(engine, browser) ==
  IF BrowsersGet(engine) # 0
    THEN [i \in 1..Len(browsers) |->
            IF browsers[i].engine = engine
              THEN [engine |-> engine, browser |-> browser]
              ELSE browsers[i]]
    ELSE Append(browsers, [engine |-> engine, browser |-> browser])

InitBrowsers ==
  /\ NoScrape
  /\ NoCall
  /\ NoBrowsers
  /\ NoMany

\* getBrowser(engine) up to its await: the browser of the Map is returned if
\* there is one, else launch() is called and awaited.
GetBrowser(p, engine) ==
  /\ callers[p].pc = "idle"
  /\ IF BrowsersGet(engine) # 0
       THEN callers' = [callers EXCEPT ![p] =
              [pc |-> "returned", engine |-> engine, browser |-> BrowsersGet(engine),
               calledAt |-> closes, returnedAt |-> closes]]
       ELSE callers' = [callers EXCEPT ![p] =
              [pc |-> "launching", engine |-> engine, browser |-> 0,
               calledAt |-> closes, returnedAt |-> 0]]
  /\ UNCHANGED <<notBrowserVars, browsers, closer, launched, launches, closes, closed>>

\* launch() resolved: the new browser is stored and returned.
Launched(p) ==
  /\ callers[p].pc = "launching"
  /\ launched' = launched + 1
  /\ launches' = [launches EXCEPT ![callers[p].engine] = @ + 1]
  /\ browsers' = BrowsersSet(callers[p].engine, launched + 1)
  /\ callers' = [callers EXCEPT ![p].pc = "returned", ![p].browser = launched + 1,
                                 ![p].returnedAt = closes]
  /\ UNCHANGED <<notBrowserVars, closer, closes, closed>>

\* launch() rejected: so does getBrowser, the Map as it was.
LaunchRejected(p) ==
  /\ callers[p].pc = "launching"
  /\ callers' = [callers EXCEPT ![p].pc = "rejected", ![p].returnedAt = closes]
  /\ UNCHANGED <<notBrowserVars, browsers, closer, launched, launches, closes, closed>>

\* browsers.clear(), the last statement of closeAllBrowsers.
Clear ==
  /\ browsers' = << >>
  /\ launches' = [e \in BrowserEngines |-> 0]
  /\ closes' = closes + 1
  /\ closer' = [pc |-> "idle", position |-> 0]

\* closeAllBrowsers() up to its first await: close() is called on the first
\* browser of the Map; an empty Map is cleared at once.
CloseAllBrowsers ==
  /\ closer.pc = "idle"
  /\ closes < MaxCloses
  /\ IF Len(browsers) = 0
       THEN Clear /\ UNCHANGED closed
       ELSE /\ closer' = [pc |-> "closing", position |-> 1]
            /\ closed' = closed \cup {browsers[1].browser}
            /\ UNCHANGED <<browsers, launches, closes>>
  /\ UNCHANGED <<notBrowserVars, callers, launched>>

\* close() resolved: the loop goes on with the next browser of the Map, those
\* stored in the meantime included, and clears the Map after the last.
BrowserClosed ==
  /\ closer.pc = "closing"
  /\ IF closer.position < Len(browsers)
       THEN /\ closer' = [closer EXCEPT !.position = @ + 1]
            /\ closed' = closed \cup {browsers[closer.position + 1].browser}
            /\ UNCHANGED <<browsers, launches, closes>>
       ELSE Clear /\ UNCHANGED closed
  /\ UNCHANGED <<notBrowserVars, callers, launched>>

NextBrowsers ==
  \/ \E p \in Callers, engine \in BrowserEngines : GetBrowser(p, engine)
  \/ \E p \in Callers : Launched(p)
  \/ \E p \in Callers : LaunchRejected(p)
  \/ CloseAllBrowsers
  \/ BrowserClosed

SpecBrowsers == InitBrowsers /\ [][NextBrowsers]_vars

----------------------------------------------------------------------------
(* scrapeMany *)

\* The URLs of the model; the empty string is a string like any other.
Urls == {"", "a", "b"}

\* The lists of up to n URLs, repeated URLs included.
UrlListsOf(n) == UNION { [1..k -> Urls] : k \in 0..n }

\* The argument of addUrls: a single URL or an array of URLs.
NewUrlsInputs ==
  { [string |-> u] : u \in Urls } \cup { [array |-> a] : a \in UrlListsOf(MaxUrls) }

\* How many URLs the argument of addUrls holds.
NewUrlsCount(newUrls) ==
  IF ~IsSome(newUrls) THEN 0
  ELSE IF "array" \in DOMAIN Get(newUrls) THEN Len(Get(newUrls).array) ELSE 1

\* What a callback, when there is one, may do: return normally or raise.
CallbackInputs == {"absent", "returns", "raises"}

\* delays of scrapeManyConfig.
DelaysInputs == {None, Some([min |-> 1, max |-> 5])}

\* scrapeManyConfig with what its callbacks do: each callback calls addUrls
\* with newUrls when newUrls is there.
ManyConfigs ==
  { c \in [onSuccess : CallbackInputs, onError : CallbackInputs,
            newUrls : {None} \cup { Some(n) : n \in NewUrlsInputs },
            delays : DelaysInputs] :
      (c.onSuccess = "absent" /\ c.onError = "absent") => c.newUrls = None }

\* new Set(urls): the URLs in the order of their first occurrence.
RECURSIVE SetOfUrls(_)
SetOfUrls(list) ==
  IF list = << >> THEN << >>
  ELSE LET front == SetOfUrls(SubSeq(list, 1, Len(list) - 1))
           last == list[Len(list)]
       IN IF \E i \in 1..Len(front) : front[i] = last THEN front ELSE Append(front, last)

\* set.has(u)
Has(set, u) == \E i \in 1..Len(set) : set[i] = u

\* set.delete(u)
Delete(set, u) == SelectSeq(set, LAMBDA v : v # u)

initialCount == Len(urls)

InitMany ==
  /\ NoScrape
  /\ NoCall
  /\ NoBrowsers
  /\ urls \in UrlListsOf(MaxUrls)
  /\ manyConfig \in ManyConfigs
  /\ Len(urls) + NewUrlsCount(manyConfig.newUrls) <= MaxQueued
  /\ queue = SetOfUrls(urls)
  /\ processed = {}
  /\ discoveredCount = 0
  /\ succeededCount = 0
  /\ failedCount = 0
  /\ currentIndex = 0
  /\ mpc = "loop"
  /\ url = ""
  /\ stats = NoStats
  /\ manyResult = None
  /\ manyError = None
  /\ raised = FALSE
  /\ spins = 0
  /\ manyReturned = None
  /\ events = << >>

\* Mutant of createStats: remaining leaves the current URL out.
createStatsWithoutCurrent ==
  [initial |-> initialCount,
   discovered |-> discoveredCount,
   processed |-> succeededCount + failedCount,
   remaining |-> Len(queue) - 1,
   succeeded |-> succeededCount,
   failed |-> failedCount]

createStats ==
  [initial |-> initialCount,
   discovered |-> discoveredCount,
   processed |-> succeededCount + failedCount,
   remaining |-> Len(queue),
   succeeded |-> succeededCount,
   failed |-> failedCount]

\* An entry of events.
Event(name, info, ms) ==
  [type |-> name, url |-> url, index |-> currentIndex, stats |-> stats,
   detail |-> info, delay |-> ms]

\* Array.isArray(newUrls) ? newUrls : [newUrls]
urlArray(newUrls) ==
  IF "array" \in DOMAIN newUrls THEN newUrls.array ELSE <<newUrls.string>>

\* The loop of addUrls over urlArray: the queue and the number of URLs added.
RECURSIVE addUrlsLoop(_, _, _)
addUrlsLoop(array, q, added) ==
  IF array = << >> THEN [queue |-> q, added |-> added]
  ELSE IF Head(array) \in processed \/ Has(q, Head(array))
    THEN addUrlsLoop(Tail(array), q, added)
    ELSE addUrlsLoop(Tail(array), Append(q, Head(array)), added + 1)

\* Mutant of AddUrls: discovered counts every URL handed to addUrls.
AddUrlsCountsEvery ==
  IF IsSome(manyConfig.newUrls)
    THEN LET after == addUrlsLoop(urlArray(Get(manyConfig.newUrls)), queue, 0)
         IN /\ queue' = after.queue
            /\ discoveredCount' = discoveredCount + Len(urlArray(Get(manyConfig.newUrls)))
    ELSE UNCHANGED <<queue, discoveredCount>>

\* The call of addUrls a callback makes, if it makes one.
AddUrls ==
  IF IsSome(manyConfig.newUrls)
    THEN LET after == addUrlsLoop(urlArray(Get(manyConfig.newUrls)), queue, 0)
         IN /\ queue' = after.queue
            /\ discoveredCount' = discoveredCount + after.added
    ELSE UNCHANGED <<queue, discoveredCount>>

\* What the call of scrape may do: resolve with a result of a mechanism, or reject.
ScrapeOutcomes == {"fetch", "browser", "custom", "rejected"}

\* The head of the loop with an empty URL first in the queue: `continue`.
Spin ==
  /\ mpc = "loop"
  /\ queue # << >>
  /\ Head(queue) = ""
  /\ spins < MaxSpins
  /\ spins' = spins + 1
  /\ UNCHANGED <<notManyVars, urls, manyConfig, queue, processed, discoveredCount,
                 succeededCount, failedCount, currentIndex, mpc, url, stats, manyResult,
                 manyError, raised, manyReturned, events>>

\* An iteration from the head of the loop to the call of scrape and its
\* outcome; a URL already processed is dropped from the queue instead.
ProcessUrl ==
  /\ mpc = "loop"
  /\ queue # << >>
  /\ Head(queue) # ""
  /\ IF Head(queue) \in processed
       THEN /\ queue' = Delete(queue, Head(queue))
            /\ UNCHANGED <<mpc, url, stats, manyResult, manyError, events>>
       ELSE /\ url' = Head(queue)
            /\ stats' = createStats
            /\ \E outcome \in ScrapeOutcomes :
                 /\ events' = Append(events,
                      [type |-> "scrape", url |-> url', index |-> currentIndex,
                       stats |-> stats', detail |-> outcome, delay |-> 0])
                 /\ IF outcome = "rejected"
                      THEN /\ mpc' = "onError"
                           /\ manyResult' = None
                           /\ manyError' = Some("scrape")
                      ELSE /\ mpc' = "onSuccess"
                           /\ manyResult' = Some([mechanism |-> outcome,
                                                   open |-> outcome = "browser"])
                           /\ manyError' = None
            /\ UNCHANGED queue
  /\ raised' = FALSE
  /\ UNCHANGED <<notManyVars, urls, manyConfig, processed, discoveredCount,
                 succeededCount, failedCount, currentIndex, spins, manyReturned>>

\* The call of onSuccess, when there is one.
OnSuccess ==
  /\ mpc = "onSuccess"
  /\ IF manyConfig.onSuccess = "absent"
       THEN UNCHANGED <<queue, discoveredCount, events, raised>>
       ELSE /\ AddUrls
            /\ events' = Append(events, Event("onSuccess", Get(manyResult).mechanism, 0))
            /\ raised' = (manyConfig.onSuccess = "raises")
  /\ mpc' = "finally"
  /\ UNCHANGED <<notManyVars, urls, manyConfig, processed, succeededCount, failedCount,
                 currentIndex, url, stats, manyResult, manyError, spins, manyReturned>>

\* Mutant of Finally: cleanup is called only when onSuccess returned.
FinallyCleansUpOnReturnOnly ==
  /\ mpc = "finally"
  /\ IF Get(manyResult).mechanism = "browser" /\ ~raised
       THEN /\ manyResult' = Some([Get(manyResult) EXCEPT !.open = FALSE])
            /\ events' = Append(events, Event("cleanup", "", 0))
       ELSE UNCHANGED <<manyResult, events>>
  /\ IF raised
       THEN /\ mpc' = "onError"
            /\ manyError' = Some("onSuccess")
            /\ UNCHANGED succeededCount
       ELSE /\ mpc' = "processed"
            /\ succeededCount' = succeededCount + 1
            /\ UNCHANGED manyError
  /\ UNCHANGED <<notManyVars, urls, manyConfig, queue, processed, discoveredCount,
                 failedCount, currentIndex, url, stats, raised, spins, manyReturned>>

\* The finally block after onSuccess, and what follows it: succeededCount++
\* when onSuccess returned, the outer catch when it raised.
Finally ==
  /\ mpc = "finally"
  /\ IF Get(manyResult).mechanism = "browser"
       THEN /\ manyResult' = Some([Get(manyResult) EXCEPT !.open = FALSE])
            /\ events' = Append(events, Event("cleanup", "", 0))
       ELSE UNCHANGED <<manyResult, events>>
  /\ IF raised
       THEN /\ mpc' = "onError"
            /\ manyError' = Some("onSuccess")
            /\ UNCHANGED succeededCount
       ELSE /\ mpc' = "processed"
            /\ succeededCount' = succeededCount + 1
            /\ UNCHANGED manyError
  /\ UNCHANGED <<notManyVars, urls, manyConfig, queue, processed, discoveredCount,
                 failedCount, currentIndex, url, stats, raised, spins, manyReturned>>

\* The outer catch: the call of onError, when there is one, and failedCount++;
\* scrapeMany rejects when onError raises.
OnError ==
  /\ mpc = "onError"
  /\ IF manyConfig.onError = "absent"
       THEN UNCHANGED <<queue, discoveredCount, events>>
       ELSE /\ AddUrls
            /\ events' = Append(events, Event("onError", Get(manyError), 0))
  /\ IF manyConfig.onError = "raises"
       THEN /\ mpc' = "rejected"
            /\ UNCHANGED failedCount
       ELSE /\ mpc' = "processed"
            /\ failedCount' = failedCount + 1
  /\ UNCHANGED <<notManyVars, urls, manyConfig, processed, succeededCount, currentIndex,
                 url, stats, manyResult, manyError, raised, spins, manyReturned>>

\* randomSleep(min, max): Math.floor(min + range * random * random), with
\* Math.random() = random / RandomResolution.
randomSleep(min, max, random) ==
  (min * RandomResolution * RandomResolution + (max - min) * random * random)
    \div (RandomResolution * RandomResolution)

\* Mutant of Processed: the queue is tested before the URL is removed from it.
ProcessedTestsBeforeDelete ==
  /\ mpc = "processed"
  /\ processed' = processed \cup {url}
  /\ queue' = Delete(queue, url)
  /\ currentIndex' = currentIndex + 1
  /\ IF IsSome(manyConfig.delays) /\ Len(queue) > 0
       THEN \E random \in RandomDraws :
              /\ events' = Append(events,
                   [type |-> "sleep", url |-> url, index |-> currentIndex', stats |-> stats,
                    detail |-> "",
                    delay |-> randomSleep(Get(manyConfig.delays).min,
                                          Get(manyConfig.delays).max, random)])
              /\ mpc' = "sleep"
       ELSE /\ mpc' = "loop"
            /\ UNCHANGED events
  /\ UNCHANGED <<notManyVars, urls, manyConfig, discoveredCount, succeededCount,
                 failedCount, url, stats, manyResult, manyError, raised, spins,
                 manyReturned>>

\* The end of an iteration: the URL is moved from the queue to processed, and
\* with delays configured and a URL left in the queue randomSleep is called.
Processed ==
  /\ mpc = "processed"
  /\ processed' = processed \cup {url}
  /\ queue' = Delete(queue, url)
  /\ currentIndex' = currentIndex + 1
  /\ IF IsSome(manyConfig.delays) /\ Len(queue') > 0
       THEN \E random \in RandomDraws :
              /\ events' = Append(events,
                   [type |-> "sleep", url |-> url, index |-> currentIndex', stats |-> stats,
                    detail |-> "",
                    delay |-> randomSleep(Get(manyConfig.delays).min,
                                          Get(manyConfig.delays).max, random)])
              /\ mpc' = "sleep"
       ELSE /\ mpc' = "loop"
            /\ UNCHANGED events
  /\ UNCHANGED <<notManyVars, urls, manyConfig, discoveredCount, succeededCount,
                 failedCount, url, stats, manyResult, manyError, raised, spins,
                 manyReturned>>

\* The sleep is over.
Slept ==
  /\ mpc = "sleep"
  /\ mpc' = "loop"
  /\ UNCHANGED <<notManyVars, urls, manyConfig, queue, processed, discoveredCount,
                 succeededCount, failedCount, currentIndex, url, stats, manyResult,
                 manyError, raised, spins, manyReturned, events>>

\* The queue is empty: scrapeMany returns its totals.
Return ==
  /\ mpc = "loop"
  /\ queue = << >>
  /\ mpc' = "returned"
  /\ manyReturned' = Some([total |-> succeededCount + failedCount,
                            succeeded |-> succeededCount,
                            failed |-> failedCount])
  /\ UNCHANGED <<notManyVars, urls, manyConfig, queue, processed, discoveredCount,
                 succeededCount, failedCount, currentIndex, url, stats, manyResult,
                 manyError, raised, spins, events>>

NextMany ==
  \/ Spin
  \/ ProcessUrl
  \/ OnSuccess
  \/ Finally
  \/ OnError
  \/ Processed
  \/ Slept
  \/ Return

SpecMany == InitMany /\ [][NextMany]_vars

----------------------------------------------------------------------------
(* Reading the trace *)

Done == pc \in {"returned", "rejected"}

IsEvent(p, t) == trace[p].type = t

\* The positions of the calls of fn (one mechanism attempt each) of strategy i.
FnPositions(i) == { p \in DOMAIN trace : IsEvent(p, "fn") /\ trace[p].index = i }

Calls(i) == Cardinality(FnPositions(i))

\* The positions where scrape caught the failure of strategy i.
CaughtPositions(i) == { p \in DOMAIN trace : IsEvent(p, "caught") /\ trace[p].index = i }

StartPositions(i) ==
  { p \in DOMAIN trace : IsEvent(p, "executeStrategy") /\ trace[p].index = i }

HookPositions(name) == { p \in DOMAIN trace : IsEvent(p, "hook") /\ trace[p].name = name }

SleepPositions == { p \in DOMAIN trace : IsEvent(p, "sleep") }

HasStrategies == IsSome(config.strategies) /\ Len(Get(config.strategies)) > 0

\* The retry count n of the call, when it is >= 1.
Retries == IsSome(config.retries) /\ Get(config.retries).count >= 1

Count == Get(config.retries).count

\* An HttpError whose status is outside the retriable set of the call.
OutsideRetriableSet(e) ==
  /\ e.kind = "HttpError"
  /\ e.statusCode \notin (IF IsSome(Get(config.retries).statusCodes)
                            THEN Get(Get(config.retries).statusCodes)
                            ELSE DefaultRetryStatusCodes)

----------------------------------------------------------------------------
(* The claims *)

\* C1: scrape with a non-empty strategy list executes the strategies in
\* declared order, each with the executor of its mechanism, and returns the
\* result of the first strategy that succeeds: every strategy before it was
\* executed and failed, and nothing is executed after the successful attempt.
C1_FirstSuccessWins ==
  /\ \A p \in DOMAIN trace :
       IsEvent(p, "fn") =>
         trace[p].mechanism = Get(config.strategies)[trace[p].index + 1].mechanism
  /\ IsSome(result) =>
       LET r == Get(result)
       IN /\ pc = "returned"
          /\ HasStrategies
          /\ \A j \in 0..(Len(Get(config.strategies)) - 1) :
               /\ Cardinality(StartPositions(j)) = (IF j <= r.index THEN 1 ELSE 0)
               /\ Cardinality(CaughtPositions(j)) = (IF j < r.index THEN 1 ELSE 0)
               /\ j > r.index => Calls(j) = 0
          /\ \A j \in 0..(r.index - 1) :
               \A p \in StartPositions(j), q \in StartPositions(j + 1) : p < q
          /\ \E p \in FnPositions(r.index) :
               /\ trace[p].call = r.call
               /\ \A q \in DOMAIN trace : q > p => IsEvent(q, "customFn")

C1_Witness ==
  /\ pc = "returned"
  /\ Len(Get(config.strategies)) = 2
  /\ Get(result).index = 0

\* C2: a strategy is executed only after every strategy before it was executed
\* and failed; and when a strategy that is not the last one has failed, however
\* it failed, the next strategy of the list is executed.
C2_CascadeAdvances ==
  /\ \A p \in DOMAIN trace :
       IsEvent(p, "executeStrategy") =>
         \A j \in 0..(trace[p].index - 1) :
           \E q \in StartPositions(j), c \in CaughtPositions(j) : q < c /\ c < p
  /\ Done /\ HasStrategies =>
       \A c \in DOMAIN trace :
         (IsEvent(c, "caught") /\ trace[c].index < Len(Get(config.strategies)) - 1) =>
           \E p \in FnPositions(trace[c].index + 1) : p > c

\* The cascade has moved on from a first strategy that failed on an HTTP
\* status outside the retriable set.
C2_Witness ==
  /\ pc = "executeStrategy"
  /\ index = 1
  /\ Retries
  /\ IsSome(error)
  /\ OutsideRetriableSet(Get(error))

\* C3: when every strategy fails, scrape rejects with the error the last
\* strategy failed with, never with the error of an earlier strategy.
C3_LastStrategyErrorSurfaces ==
  (pc = "rejected" /\ HasStrategies) =>
    LET e == Get(thrown)
        last == Len(Get(config.strategies)) - 1
    IN /\ e.raisedBy = "attempt"
       /\ e.index = last
       /\ \A j \in 0..last : CaughtPositions(j) # {}
       /\ \A c \in CaughtPositions(last) : trace[c].error = ErrorId(e)

C3_Witness ==
  /\ pc = "rejected"
  /\ HasStrategies
  /\ Len(Get(config.strategies)) = 2
  /\ Get(thrown).index = 1

\* C4: scrape with an empty or absent strategy list rejects with the
\* 'No strategies provided' error; no executor has run, no context was
\* created and no hook was called.
C4_NoStrategiesRejects ==
  (pc # "scrape" /\ ~HasStrategies) =>
    /\ pc = "rejected"
    /\ Get(thrown).kind = "noStrategiesProvided"
    /\ result = None
    /\ trace = << >>
    /\ contexts.created = 0

C4_Witness ==
  /\ pc = "rejected"
  /\ IsSome(config.strategies)
  /\ Len(Get(config.strategies)) = 0
  /\ config.hooks = HookNames

\* C5: withRetry with count n >= 1 calls the action at most n+1 times, the
\* calls numbered 1, 2, ...; a success on the k-th call is returned after
\* exactly k calls; and when the strategy failed with a retriable error (so
\* every attempt failed with one) the action was called exactly n+1 times.
C5_AtMostCountPlusOneCalls ==
  Retries =>
    /\ \A p \in DOMAIN trace :
         IsEvent(p, "fn") =>
           /\ trace[p].call <= Count + 1
           /\ trace[p].call =
                Cardinality({ q \in FnPositions(trace[p].index) : q <= p })
    /\ pc = "returned" => Calls(Get(result).index) = Get(result).call
    /\ (pc = "scrapeCatch" /\ ~OutsideRetriableSet(Get(error))) =>
         Calls(index) = Count + 1

\* A success on the last call withRetry allows.
C5_Witness ==
  /\ Retries
  /\ pc = "returned"
  /\ Get(result).call = Count + 1

\* C6: withRetry with no retry configuration or with count = 0 calls the
\* action exactly once and hands its outcome on as it is: the value of that
\* call, or the error of that call; withRetry adds no hook call and no sleep.
C6_NoRetryCallsOnce ==
  ~Retries =>
    /\ \A p \in DOMAIN trace :
         IsEvent(p, "fn") => trace[p].call = 1 /\ Calls(trace[p].index) = 1
    /\ pc = "returned" => Get(result).call = 1
    /\ pc = "scrapeCatch" =>
         /\ Calls(index) = 1
         /\ Get(error).raisedBy = "attempt"
         /\ Get(error).index = index
         /\ Get(error).call = 1
    /\ HookPositions("onRetryAttempt") = {}
    /\ HookPositions("onRetryExhausted") = {}
    /\ SleepPositions = {}

\* With count = 0, an HttpError reaches scrape's catch block.
C6_Witness ==
  /\ IsSome(config.retries)
  /\ Count = 0
  /\ config.hooks = HookNames
  /\ pc = "scrapeCatch"
  /\ Get(error).kind = "HttpError"

\* C7: when all n+1 attempts of withRetry have failed, withRetry rejects with
\* the error of the (n+1)-th attempt.
C7_LastAttemptErrorRejected ==
  (Retries /\ pc = "scrapeCatch" /\ Calls(index) = Count + 1) =>
    /\ Get(error).raisedBy = "attempt"
    /\ Get(error).index = index
    /\ Get(error).call = Count + 1

C7_Witness ==
  /\ Retries
  /\ pc = "scrapeCatch"
  /\ Calls(index) = Count + 1
  /\ Get(error).kind = "responseValidationFailed"
  /\ HookPositions("onRetryExhausted") # {}

\* C8: an attempt that fails with an HttpError whose status is outside the
\* retriable set makes withRetry (count >= 1) reject with that error at once:
\* the action is not called again, nothing is slept and no hook is called
\* with that error.
C8_NonRetriableStatusAborts ==
  (Retries /\ pc = "scrapeCatch" /\ OutsideRetriableSet(Get(error))) =>
    LET e == Get(error)
    IN /\ e.raisedBy = "attempt"
       /\ e.index = index
       /\ Calls(index) = e.call
       /\ IsEvent(Len(trace), "fn")
       /\ trace[Len(trace)].index = index
       /\ trace[Len(trace)].call = e.call
       /\ \A p \in DOMAIN trace :
            (IsEvent(p, "hook") /\ trace[p].name \in {"onRetryAttempt", "onRetryExhausted"}) =>
              trace[p].ctx.error # ErrorId(e)

\* The first attempt fails that way, with retries left.
C8_Witness ==
  /\ Retries
  /\ pc = "scrapeCatch"
  /\ OutsideRetriableSet(Get(error))
  /\ Get(error).call = 1
  /\ config.hooks = HookNames

\* C9: a custom strategy in a config without a custom function is not
\* retried: its executor is called once, nothing is slept and onRetryAttempt
\* is not called for it.
C9_MissingCustomFnNotRetried ==
  (HasStrategies /\ ~config.customFn) =>
    \A p \in DOMAIN trace :
      /\ (IsEvent(p, "fn") /\ trace[p].mechanism = "custom") => trace[p].call = 1
      /\ (IsEvent(p, "hook") /\ trace[p].name = "onRetryAttempt") =>
           Get(config.strategies)[trace[p].ctx.error.index + 1].mechanism # "custom"

\* The failures of a browser attempt inside executeBrowserMechanism, after
\* the context was opened.
BrowserExecutorFailures ==
  {"createPageRejected", "gotoRejected", "noResponseReceived",
   "responseValidationFailed", "validatorRaised"}

\* The errors that have left the executor: caught by withRetry, held by it,
\* caught by scrape, or rejected to the caller.
ErrorsOutside ==
  { Get(x) : x \in { y \in {error, lastError, thrown} : IsSome(y) } }

\* C10: when a browser attempt fails after its context was opened (page
\* creation, navigation, no response, validator false or raising), that
\* context is closed by the time the error is with the retry wrapper or the
\* caller.
C10_BrowserFailureClosesContext ==
  \A e \in ErrorsOutside :
    (e.raisedBy = "attempt" /\ e.context # 0 /\ e.kind \in BrowserExecutorFailures) =>
      e.context \notin contexts.open

C10_Witness ==
  /\ pc = "withRetryCatch"
  /\ Get(error).kind = "validatorRaised"
  /\ Get(error).context # 0
  /\ Get(error).context \notin contexts.open

\* C11: every context opened during a scrape call is closed by the core
\* unless it is the one the returned result carries: when scrape has rejected,
\* and whenever a retry or the next strategy is about to start, no context of
\* an earlier failed attempt is open, however that attempt failed (an HTTP
\* status rejection included).
C11_FailedAttemptsLeaveNoContext ==
  /\ pc \in {"rejected", "executeStrategy", "fn", "sleep"} => contexts.open = {}
  /\ (pc = "returned" /\ ~cleaned) => contexts.open \subseteq {Get(result).context}

\* C12: on a successful browser attempt the core does not close the context:
\* it is open when scrape returns the browser result, and it is closed once
\* the caller has invoked the cleanup() of that result, not before.
C12_SuccessLeavesContextToCaller ==
  (pc = "returned" /\ Get(result).mechanism = "browser") =>
    /\ Get(result).context # 0
    /\ Get(result).context \in contexts.open <=> ~cleaned

C12_Witness ==
  /\ pc = "returned"
  /\ Get(result).mechanism = "browser"
  /\ cleaned
  /\ Get(result).context \notin contexts.open

\* The latest attempt has just ended: its result is returned, or its error is
\* with withRetry or, when there is no retry loop, with scrape.
AttemptEnded ==
  \/ pc \in {"returned", "withRetryCatch"}
  \/ pc = "scrapeCatch" /\ ~Retries

\* The latest attempt was accepted: its result is the value scrape returned.
Accepted ==
  /\ pc = "returned"
  /\ Get(result).index = index
  /\ Get(result).call = attempt + 1
  /\ Get(result).response = Get(received)

\* The latest attempt failed with an error of the given kind.
FailedWith(kind) ==
  /\ pc # "returned"
  /\ Get(error).kind = kind
  /\ Get(error).index = index
  /\ Get(error).call = attempt + 1

Backoff(k) ==
  LET rc == Get(config.retries)
      base == IF IsSome(rc.delay) THEN Get(rc.delay) ELSE DefaultRetryDelay
      t == IF IsSome(rc.type) THEN Get(rc.type) ELSE "exponential"
  IN IF t = "linear" THEN base * k
       ELSE IF t = "constant" THEN base
       ELSE base * 2 ^ (k - 1)

ValidationFailed(e) ==
  IsSome(e) /\ Get(e).kind = "responseValidationFailed" /\ Get(e).raisedBy = "attempt"

\* C14: a validator returning false is handled like a transient failure:
\* with retries left, onRetryAttempt is called with that error and the backoff
\* delay, that delay is slept and the attempt is repeated; the strategy fails
\* with the validation error only once all n+1 attempts are used up.
C14_ValidationFailureRetried ==
  Retries =>
    /\ (pc = "sleep" /\ ValidationFailed(lastError)) =>
         /\ Get(lastError).call = attempt + 1
         /\ attempt + 1 <= Count
         /\ "onRetryAttempt" \in config.hooks =>
              /\ IsEvent(Len(trace), "hook")
              /\ trace[Len(trace)].name = "onRetryAttempt"
              /\ trace[Len(trace)].ctx.error = ErrorId(Get(lastError))
              /\ trace[Len(trace)].ctx.attempt = attempt + 1
              /\ trace[Len(trace)].ctx.maxAttempts = Count + 1
              /\ trace[Len(trace)].ctx.nextRetryDelay = Backoff(attempt + 1)
    /\ (pc = "fn" /\ attempt > 0 /\ ValidationFailed(lastError)) =>
         /\ Get(lastError).call = attempt
         /\ IsEvent(Len(trace), "sleep")
         /\ trace[Len(trace)].ms = Backoff(attempt)
    /\ (pc = "scrapeCatch" /\ ValidationFailed(error)) =>
         /\ Get(error).call = Count + 1
         /\ Calls(index) = Count + 1
         /\ Cardinality({ p \in SleepPositions : p > CHOOSE q \in StartPositions(index) : TRUE })
              = Count

\* A validation failure is being slept on before its retry.
C14_Witness ==
  /\ Retries
  /\ pc = "sleep"
  /\ ValidationFailed(lastError)
  /\ config.hooks = HookNames

\* The options drawn when strategy i was started.
DrawnFor(i) == trace[CHOOSE p \in StartPositions(i) : TRUE].options

Elements(pool) == IF IsSome(pool) THEN { Get(pool)[k] : k \in DOMAIN Get(pool) } ELSE {}

\* A value selected from a pool: one of its elements, or nothing when the
\* pool is empty or absent.
SelectedFrom(value, pool) ==
  IF Elements(pool) = {} THEN value = None
                         ELSE IsSome(value) /\ Get(value) \in Elements(pool)

\* C16: RequestOptions.proxy is a member of options.proxies when useProxy of
\* the strategy is true and the pool is non-empty, and absent otherwise;
\* user agent and viewport are selected from their pools whatever useProxy is.
C16_ProxyOnlyWithUseProxy ==
  \A p \in DOMAIN trace :
    trace[p].type \in {"executeStrategy", "fn"} =>
      LET o == trace[p].options
          s == Get(config.strategies)[trace[p].index + 1]
      IN /\ IF s.useProxy = Some(TRUE)
                THEN SelectedFrom(o.proxy, config.pools.proxies)
                ELSE o.proxy = None
         /\ SelectedFrom(o.userAgent, config.pools.userAgents)
         /\ SelectedFrom(o.viewport, config.pools.viewports)

\* useProxy is false, the proxy pool is not empty: a user agent is selected,
\* no proxy is.
C16_Witness ==
  /\ pc = "fn"
  /\ strategy.useProxy = Some(FALSE)
  /\ Elements(config.pools.proxies) # {}
  /\ options.proxy = None
  /\ IsSome(options.userAgent)

\* C17: the custom executor fails with the 'no response' error exactly when
\* the custom function returned null or undefined; any other value, false, 0
\* and the empty string included, is the payload of the attempt: it is
\* returned as {mechanism: 'custom', response: value} (unless a configured
\* validator turns it down).
C17_CustomNoResponseOnlyForNullish ==
  (AttemptEnded /\ HasStrategies /\ Get(config.strategies)[index + 1].mechanism = "custom") =>
    /\ FailedWith("customFetchNoResponse") <=>
         (IsSome(received) /\ Get(received).value \in {"null", "undefined"})
    /\ (IsSome(received) /\ Get(received).value \notin {"null", "undefined"}) =>
         IF IsSome(validated) /\ Get(validated).returned # "true"
           THEN pc # "returned"
           ELSE /\ Accepted
                /\ Get(result).mechanism = "custom"
                /\ Get(result).response.value = Get(received).value

\* The empty string is returned as a custom result.
C17_Witness ==
  /\ pc = "returned"
  /\ Get(result).mechanism = "custom"
  /\ Get(result).response.value = ""

\* The strategy of the latest attempt.
LatestAttemptStrategy ==
  Get(config.strategies)[trace[CHOOSE p \in DOMAIN trace :
                                  /\ IsEvent(p, "fn")
                                  /\ \A q \in DOMAIN trace : IsEvent(q, "fn") => q <= p].index + 1]

\* C18: the result scrape returns carries the mechanism of the strategy whose
\* execution produced it, and the validator of an attempt is called with the
\* mechanism of that attempt's strategy.
C18_MechanismTagMatches ==
  /\ IsSome(result) =>
       /\ Get(result).mechanism = Get(config.strategies)[Get(result).index + 1].mechanism
       /\ Get(result).mechanism = LatestAttemptStrategy.mechanism
  /\ IsSome(validated) => Get(validated).mechanism = LatestAttemptStrategy.mechanism

\* The second strategy, a browser one after a fetch one, returned a validated result.
C18_Witness ==
  /\ pc = "returned"
  /\ Get(result).index = 1
  /\ Get(result).mechanism = "browser"
  /\ Get(config.strategies)[1].mechanism = "fetch"
  /\ IsSome(validated)

\* The positions of the onStrategyFailed calls for strategy i.
StrategyFailedPositions(i) ==
  { p \in HookPositions("onStrategyFailed") : trace[p].ctx.strategyIndex = i }

\* Strategy i has failed: scrape has caught its error and has moved on to a
\* later strategy or has rejected.
StrategyHasFailed(i) == i < index \/ (i = index /\ pc = "rejected")

\* C19: a registered onStrategyFailed is called exactly once for each
\* strategy that failed, in strategy order, with the error, the strategy, its
\* position as strategyIndex and the list length as totalStrategies; it is not
\* called for a strategy that succeeded or was not executed.
C19_StrategyFailedOncePerFailure ==
  (HasStrategies /\ "onStrategyFailed" \in config.hooks) =>
    /\ \A i \in 0..(Len(Get(config.strategies)) - 1) :
         /\ StrategyHasFailed(i) => Cardinality(StrategyFailedPositions(i)) = 1
         /\ (i > index \/ (i = index /\ pc # "rejected")) =>
              StrategyFailedPositions(i) = {}
         /\ (IsSome(result) /\ i >= Get(result).index) => StrategyFailedPositions(i) = {}
    /\ \A p \in HookPositions("onStrategyFailed") :
         LET c == trace[p].ctx
         IN /\ c.strategyIndex \in 0..(Len(Get(config.strategies)) - 1)
            /\ c.totalStrategies = Len(Get(config.strategies))
            /\ c.strategy = Get(config.strategies)[c.strategyIndex + 1]
            /\ c.error.index = c.strategyIndex
            /\ \E q \in FnPositions(c.strategyIndex) : q < p
            /\ \A q \in HookPositions("onStrategyFailed") :
                 q < p => trace[q].ctx.strategyIndex < c.strategyIndex

\* Both strategies of a list of two have failed, each with its hook call.
C19_Witness ==
  /\ pc = "rejected"
  /\ HasStrategies
  /\ index = 1
  /\ StrategyFailedPositions(0) # {}
  /\ StrategyFailedPositions(1) # {}

\* C20: a registered onAllStrategiesFailed is called exactly once if and only
\* if every strategy of the list failed, after the last onStrategyFailed and
\* before scrape rejects, with the error of the last strategy, the full
\* strategy list and totalAttempts equal to the list length; it is not called
\* in a call that returns a result.
C20_AllFailedOnceAfterLastFailure ==
  (HasStrategies /\ "onAllStrategiesFailed" \in config.hooks) =>
    LET all == HookPositions("onAllStrategiesFailed")
        last == Len(Get(config.strategies)) - 1
    IN /\ pc = "rejected" => Cardinality(all) = 1
       /\ pc # "rejected" => all = {}
       /\ IsSome(result) => all = {}
       /\ \A p \in all :
            /\ p = Len(trace)
            /\ trace[p].ctx.strategies = Get(config.strategies)
            /\ trace[p].ctx.totalAttempts = Len(Get(config.strategies))
            /\ trace[p].ctx.lastError = ErrorId(Get(thrown))
            /\ \A i \in 0..last : \E c \in CaughtPositions(i) : c < p
            /\ \A q \in HookPositions("onStrategyFailed") : q < p
            /\ "onStrategyFailed" \in config.hooks =>
                 /\ IsEvent(p - 1, "hook")
                 /\ trace[p - 1].name = "onStrategyFailed"
                 /\ trace[p - 1].ctx.strategyIndex = last

\* scrape has rejected after two failed strategies, the hook called.
C20_Witness ==
  /\ pc = "rejected"
  /\ HasStrategies
  /\ Len(Get(config.strategies)) = 2
  /\ HookPositions("onAllStrategiesFailed") # {}

\* Event p is the call of fn numbered k of strategy i, with the call of the
\* custom function that may follow it.
IsAttempt(p, i, k) ==
  \/ IsEvent(p, "fn") /\ trace[p].index = i /\ trace[p].call = k
  \/ /\ IsEvent(p, "customFn")
     /\ IsEvent(p - 1, "fn") /\ trace[p - 1].index = i /\ trace[p - 1].call = k

\* C21: with count n >= 1, after the k-th failed attempt (k <= n, the error
\* retriable) a registered onRetryAttempt is called once with attempt = k,
\* maxAttempts = n + 1 and the backoff delay of the k-th failure; exactly that
\* delay is slept, then attempt k + 1 starts. It is not called after the
\* (n+1)-th failure nor after a success.
C21_RetryAttemptThenSleep ==
  (Retries /\ "onRetryAttempt" \in config.hooks) =>
    /\ \A p \in HookPositions("onRetryAttempt") :
         LET c == trace[p].ctx
         IN /\ c.attempt \in 1..Count
            /\ c.maxAttempts = Count + 1
            /\ c.nextRetryDelay = Backoff(c.attempt)
            /\ c.error.call = c.attempt
            /\ c.error.raisedBy = "attempt"
            /\ IsAttempt(p - 1, c.error.index, c.attempt)
            /\ \A q \in HookPositions("onRetryAttempt") : trace[q].ctx.error = c.error => q = p
            /\ IF p = Len(trace)
                 THEN pc = "sleep" /\ attempt + 1 = c.attempt /\ index = c.error.index
                 ELSE /\ IsEvent(p + 1, "sleep")
                      /\ trace[p + 1].ms = c.nextRetryDelay
                      /\ IF p + 1 = Len(trace)
                           THEN pc = "fn" /\ attempt = c.attempt /\ index = c.error.index
                           ELSE IsAttempt(p + 2, c.error.index, c.attempt + 1)
            /\ IsSome(result) =>
                 ~(c.error.index = Get(result).index /\ c.error.call = Get(result).call)
    /\ \A p \in DOMAIN trace :
         (IsEvent(p, "fn") /\ trace[p].call > 1) =>
           /\ IsEvent(p - 1, "sleep")
           /\ IsEvent(p - 2, "hook")
           /\ trace[p - 2].name = "onRetryAttempt"
           /\ trace[p - 2].ctx.attempt = trace[p].call - 1
           /\ trace[p - 2].ctx.error.index = trace[p].index
    /\ pc \in {"withRetryExhausted", "scrapeCatch", "returned"} =>
         ~(IsEvent(Len(trace), "hook") /\ trace[Len(trace)].name = "onRetryAttempt")

\* The second strategy has slept its first retry delay: attempt 2 is about to start.
C21_Witness ==
  /\ Retries
  /\ config.hooks = HookNames
  /\ pc = "fn"
  /\ attempt = 1
  /\ index = 1
  /\ IsEvent(Len(trace), "sleep")

\* C22: with count n >= 1, a registered onRetryExhausted is called exactly
\* once per exhausted retry loop, after the (n+1)-th failed attempt and before
\* the rejection, with the error of that attempt and totalAttempts = n + 1; it
\* is not called for a strategy execution in which an attempt succeeds.
C22_RetryExhaustedOnce ==
  (Retries /\ "onRetryExhausted" \in config.hooks) =>
    /\ \A p \in HookPositions("onRetryExhausted") :
         LET c == trace[p].ctx
         IN /\ c.totalAttempts = Count + 1
            /\ c.error.call = Count + 1
            /\ c.error.raisedBy = "attempt"
            /\ IsAttempt(p - 1, c.error.index, Count + 1)
            /\ \A q \in HookPositions("onRetryExhausted") :
                 trace[q].ctx.error.index = c.error.index => q = p
            /\ IsSome(result) => Get(result).index # c.error.index
            /\ \A q \in CaughtPositions(c.error.index) : q > p
    /\ (pc = "scrapeCatch" /\ Get(error).call = Count + 1
          /\ ~OutsideRetriableSet(Get(error))) =>
         /\ IsEvent(Len(trace), "hook")
         /\ trace[Len(trace)].name = "onRetryExhausted"
         /\ trace[Len(trace)].ctx.error = ErrorId(Get(error))
    /\ pc = "withRetryExhausted" =>
         \A p \in HookPositions("onRetryExhausted") : trace[p].ctx.error.index < index

\* The retries of the first strategy are used up and the hook was called.
C22_Witness ==
  /\ Retries
  /\ pc = "scrapeCatch"
  /\ IsEvent(Len(trace), "hook")
  /\ trace[Len(trace)].name = "onRetryExhausted"
  /\ trace[Len(trace)].ctx.totalAttempts = Count + 1
  /\ index = 0

\* C23: for non-negative attempt and base delay, calculateRetryDelay is
\* base * 2^attempt for 'exponential', base * (attempt + 1) for 'linear', base
\* for 'constant' and the exponential out for any other type; so the delay
\* of the next attempt is never shorter.
C23_DelayFormulas ==
  (args.fn = "calculateRetryDelay" /\ IsSome(out)) =>
    LET a == args.attempt
        b == args.baseDelay
        d == Get(out)
    IN /\ args.retryType = "exponential" => d[1] = b * 2 ^ a
       /\ args.retryType = "linear" => d[1] = b * (a + 1)
       /\ args.retryType = "constant" => d[1] = b
       /\ args.retryType \notin {"exponential", "linear", "constant"} => d[1] = b * 2 ^ a
       /\ d[1] <= d[2]

\* The third linear delay on a base of 2.
C23_Witness ==
  /\ args.fn = "calculateRetryDelay"
  /\ args.retryType = "linear"
  /\ args.attempt = 2
  /\ args.baseDelay = 2
  /\ out = Some(<<6, 8>>)

\* C24: getRandomFrom returns nothing for an absent or empty collection, the
\* sole element of a singleton, and for any non-empty collection one of its
\* elements, whatever Math.random() returned.
C24_RandomElementOfCollection ==
  (args.fn = "getRandomFrom" /\ IsSome(out)) =>
    LET selected == Get(out)
    IN /\ ~IsSome(args.items) => selected = None
       /\ IsSome(args.items) =>
            LET items == Get(args.items)
            IN /\ Len(items) = 0 => selected = None
               /\ Len(items) = 1 => selected = Some(items[1])
               /\ Len(items) > 0 =>
                    /\ IsSome(selected)
                    /\ \E i \in 1..Len(items) : Get(selected) = items[i]

\* The largest draw on a collection of two selects its second element.
C24_Witness ==
  /\ args.fn = "getRandomFrom"
  /\ args.items = Some(<<"a", "b">>)
  /\ args.random = RandomResolution - 1
  /\ out = Some(Some("b"))

\* The calls of getBrowser(engine) that ran from call to return with no
\* browsers.clear() in between and after `cleared` of them.
ReturnedFor(engine, cleared) ==
  { p \in Callers : /\ callers[p].pc = "returned"
                    /\ callers[p].engine = engine
                    /\ callers[p].calledAt = cleared
                    /\ callers[p].returnedAt = cleared }

\* C25: whatever the interleaving of concurrent getBrowser calls, at most one
\* browser per engine is launched between two closeAllBrowsers calls, and
\* every call for the engine returns the same instance.
C25_OneBrowserPerEngine ==
  \A engine \in BrowserEngines :
    /\ launches[engine] <= 1
    /\ \A cleared \in 0..closes : \A p, q \in ReturnedFor(engine, cleared) :
         callers[p].browser = callers[q].browser

\* The positions in events of the entries of a type.
EventsOf(types) == { i \in 1..Len(events) : events[i].type \in types }

\* The positions in events of the scrapes of a URL.
ScrapesOf(u) == { i \in EventsOf({"scrape"}) : events[i].url = u }

\* The URLs a sequence holds.
UrlsIn(list) == { list[i] : i \in 1..Len(list) }

\* The URLs handed to addUrls so far: those of newUrls once a callback ran.
HandedToAddUrls ==
  IF EventsOf({"onSuccess", "onError"}) # {} /\ IsSome(manyConfig.newUrls)
    THEN LET newUrls == Get(manyConfig.newUrls)
         IN IF "string" \in DOMAIN newUrls THEN {newUrls.string} ELSE UrlsIn(newUrls.array)
    ELSE {}

\* C26: scrapeMany scrapes every distinct URL of the initial list and every
\* URL accepted by addUrls exactly once: no URL is scraped twice, with URLs in
\* the queue the next iteration scrapes the first of them, only a raising
\* onError ends the run early, and at the return every URL has been scraped
\* and total = succeeded + failed = the number of URLs scraped.
C26_EveryUrlScrapedOnce ==
  /\ \A u \in Urls : Cardinality(ScrapesOf(u)) <= 1
  /\ \A i \in EventsOf({"scrape"}) : events[i].url \in UrlsIn(urls) \cup HandedToAddUrls
  /\ (mpc = "loop" /\ queue # << >>) => ENABLED ProcessUrl
  /\ mpc = "rejected" => manyConfig.onError = "raises"
  /\ mpc = "returned" =>
       /\ \A u \in UrlsIn(urls) \cup HandedToAddUrls : Cardinality(ScrapesOf(u)) = 1
       /\ Get(manyReturned).total = Get(manyReturned).succeeded + Get(manyReturned).failed
       /\ Get(manyReturned).total = Cardinality(EventsOf({"scrape"}))

\* A step in which a callback calls addUrls.
AddUrlsCalled ==
  /\ IsSome(manyConfig.newUrls)
  /\ \/ mpc = "onSuccess" /\ manyConfig.onSuccess # "absent"
     \/ mpc = "onError" /\ manyConfig.onError # "absent"

\* C27: addUrls ignores a URL that is processed or in the queue, the URL
\* being processed included: the queue keeps its entries, gets each other URL
\* once, at its end, discovered grows by the number of those, and no URL is
\* scraped a second time.
C27_AddUrlsIgnoresKnown ==
  [][AddUrlsCalled =>
       LET known == processed \cup UrlsIn(queue)
           fresh == HandedToAddUrls' \ known
       IN /\ url \in known
          /\ Len(queue') = Len(queue) + Cardinality(fresh)
          /\ SubSeq(queue', 1, Len(queue)) = queue
          /\ UrlsIn(queue') = UrlsIn(queue) \cup fresh
          /\ discoveredCount' = discoveredCount + Cardinality(fresh)
          /\ processed' = processed
          /\ \A u \in Urls : Cardinality(ScrapesOf(u)') <= 1]_vars

\* An array with the current URL and a new one: only the new one is taken.
C27_Witness ==
  /\ urls = <<"a">>
  /\ manyConfig.newUrls = Some([array |-> <<"a", "b">>])
  /\ EventsOf({"onSuccess"}) # {}
  /\ url = "a"
  /\ queue = <<"a", "b">>
  /\ discoveredCount = 1

\* The scrape a callback belongs to: the latest before it.
ScrapeBefore(i) ==
  CHOOSE j \in EventsOf({"scrape"}) :
    j < i /\ \A k \in EventsOf({"scrape"}) : k < i => k <= j

\* C28: the callback for the k-th URL processed (from 0) gets index = k and
\* the stats taken before that URL was scraped: stats.processed = k, and
\* stats.remaining counts the current URL and the URLs queued behind it.
C28_CallbackIndexAndStats ==
  /\ \A i \in EventsOf({"onSuccess", "onError"}) :
       LET k == Cardinality({ j \in EventsOf({"scrape"}) : j < i }) - 1
       IN /\ events[i].index = k
          /\ events[i].stats.processed = k
          /\ events[i].url = events[ScrapeBefore(i)].url
          /\ events[i].stats = events[ScrapeBefore(i)].stats
  /\ (mpc = "onSuccess" \/ (mpc = "onError" /\ manyError = Some("scrape"))) =>
       /\ events[Len(events)].type = "scrape"
       /\ events[Len(events)].stats = stats
       /\ Has(queue, url)
       /\ stats.remaining = 1 + Cardinality(UrlsIn(queue) \ {url})
       /\ Len(queue) = Cardinality(UrlsIn(queue))

\* onError for the second URL, with one URL still queued behind it.
C28_Witness ==
  \E i \in EventsOf({"onError"}) :
    /\ events[i].index = 1
    /\ events[i].stats.processed = 1
    /\ events[i].stats.remaining = 2
    /\ events[i].stats.succeeded = 1

\* The entries of events between two positions.
Between(i, j) == { k \in 1..Len(events) : i < k /\ k < j }

\* C29: with delays configured scrapeMany sleeps after processing a URL if
\* and only if the queue is not empty then, URLs the callback added included:
\* one sleep between two consecutive scrapes, none after the last URL, and
\* none at all without delays.
C29_SleepsBetweenUrls ==
  /\ mpc = "sleep" => IsSome(manyConfig.delays) /\ queue # << >>
  /\ (mpc = "loop" /\ currentIndex > 0) =>
       (events[Len(events)].type = "sleep" <=> (IsSome(manyConfig.delays) /\ queue # << >>))
  /\ ~IsSome(manyConfig.delays) => EventsOf({"sleep"}) = {}
  /\ IsSome(manyConfig.delays) =>
       \A i, j \in EventsOf({"scrape"}) :
         (i < j /\ Between(i, j) \cap EventsOf({"scrape"}) = {}) =>
           Cardinality(Between(i, j) \cap EventsOf({"sleep"})) = 1
  /\ \A i \in EventsOf({"sleep"}) :
       /\ events[i].delay >= Get(manyConfig.delays).min
       /\ events[i].delay <= Get(manyConfig.delays).max
  /\ mpc = "returned" =>
       (events # << >> => events[Len(events)].type # "sleep")

\* Two URLs, the second added by the callback of the first: one sleep, between them.
C29_Witness ==
  /\ mpc = "returned"
  /\ IsSome(manyConfig.delays)
  /\ urls = <<"a">>
  /\ discoveredCount = 1
  /\ Cardinality(EventsOf({"scrape"})) = 2
  /\ Cardinality(EventsOf({"sleep"})) = 1

\* C30: the `$` accessor of a fetch result builds the parser zero times if it
\* is never read and exactly once otherwise, and every read of the same
\* result returns the same parser.
C30_ParserBuiltOnce ==
  /\ loads = (IF got = << >> THEN 0 ELSE 1)
  /\ \A i, j \in 1..Len(got) : got[i] = got[j]
  /\ got # << >> => (pc = "returned" /\ Get(result).mechanism = "fetch")

\* The fetch result was read twice.
C30_Witness ==
  /\ pc = "returned"
  /\ Get(result).mechanism = "fetch"
  /\ Len(got) = 2
  /\ loads = 1

\* C31: observer hooks are fire-and-forget. A hook that raises changes neither
\* the attempts and strategies executed nor the outcome: what a strategy fails
\* with is the error of one of its attempts, a retriable failure is met only
\* after count + 1 attempts, every strategy is executed before scrape rejects,
\* and scrape rejects with the error of the last strategy's attempt.
C31_HooksFireAndForget ==
  /\ pc = "scrapeCatch" =>
       /\ Get(error).raisedBy = "attempt"
       /\ (Retries /\ ~OutsideRetriableSet(Get(error))) => Calls(index) = Count + 1
  /\ \A c \in DOMAIN trace : IsEvent(c, "caught") => trace[c].error.raisedBy = "attempt"
  /\ (pc = "rejected" /\ HasStrategies) =>
       /\ Get(thrown).raisedBy = "attempt"
       /\ Get(thrown).index = Len(Get(config.strategies)) - 1
       /\ \A j \in 0..(Len(Get(config.strategies)) - 1) : Calls(j) >= 1

\* The calls of a hook that are about strategy i.
HooksOf(name, i) ==
  { p \in HookPositions(name) :
      IF name = "onStrategyFailed" THEN trace[p].ctx.strategyIndex = i
                                   ELSE trace[p].ctx.error.index = i }

\* C32: hooks and attempts are ordered per strategy: the attempts of a failed
\* strategy, in the order of their numbers, and its onRetryAttempt calls come
\* before its onRetryExhausted, that before its onStrategyFailed, and that
\* before the first attempt of the next strategy, which starts only after the
\* failure; an attempt in flight is the latest one started.
C32_HooksAndAttemptsOrdered ==
  /\ \A i \in 0..(MaxStrategies - 1) :
       LET attempts == FnPositions(i)
           exhausted == HooksOf("onRetryExhausted", i)
           failed == HooksOf("onStrategyFailed", i) \cup CaughtPositions(i)
       IN /\ \A a \in attempts \cup HooksOf("onRetryAttempt", i) :
               \A x \in exhausted \cup failed : a < x
          /\ \A a, b \in attempts : a < b <=> trace[a].call < trace[b].call
          /\ \A x \in exhausted : \A f \in failed : x < f
          /\ \A f \in failed : \A n \in FnPositions(i + 1) : f < n
          /\ FnPositions(i + 1) # {} =>
               /\ CaughtPositions(i) # {}
               /\ "onStrategyFailed" \in config.hooks => HooksOf("onStrategyFailed", i) # {}
  /\ pc \in {"browserTry", "browserCatch"} =>
       /\ IsEvent(Len(trace), "fn")
       /\ trace[Len(trace)].index = index
       /\ trace[Len(trace)].call = attempt + 1

\* Both strategies used up their retries, with every hook registered.
C32_Witness ==
  /\ pc = "rejected"
  /\ config.hooks = HookNames
  /\ HooksOf("onRetryExhausted", 0) # {}
  /\ HooksOf("onRetryExhausted", 1) # {}
  /\ HooksOf("onRetryAttempt", 1) # {}

\* The attempts one strategy may make: n + 1 with retry count n, 1 without.
AttemptsAllowed == IF Retries THEN Count + 1 ELSE 1

\* All the attempts of the call so far.
AllCalls == Cardinality({ p \in DOMAIN trace : IsEvent(p, "fn") })

\* The attempts of a call are bounded strategy by strategy.
AttemptsBounded ==
  HasStrategies =>
    /\ \A i \in 0..(Len(Get(config.strategies)) - 1) : Calls(i) <= AttemptsAllowed
    /\ AllCalls <= Len(Get(config.strategies)) * AttemptsAllowed
    /\ \A p \in DOMAIN trace :
         (IsEvent(p, "executeStrategy") /\ p < Len(trace)) =>
           /\ IsEvent(p + 1, "fn")
           /\ trace[p + 1].index = trace[p].index
           /\ trace[p + 1].call = 1
    /\ (pc = "scrapeCatch" /\ ~(Retries /\ OutsideRetriableSet(Get(error)))) =>
         Calls(index) = AttemptsAllowed
    /\ (pc = "rejected" /\ \A c \in DOMAIN trace :
                              IsEvent(c, "caught") => trace[c].error.call = AttemptsAllowed) =>
         AllCalls = Len(Get(config.strategies)) * AttemptsAllowed

\* C33: every strategy starts its retry counter afresh: with N strategies and
\* retry count n >= 0 a call makes at most N * (n + 1) attempts, exactly that
\* many when every attempt fails with a retriable error, and the call ends
\* when every attempt and every delay ends.
C33_FreshCounterAndTermination == []AttemptsBounded /\ <>Done

\* Two strategies used every attempt of a retry count of one.
C33_Witness ==
  /\ pc = "rejected"
  /\ HasStrategies
  /\ Retries
  /\ Len(Get(config.strategies)) = 2
  /\ AllCalls = 2 * (Count + 1)

\* The entries of events that belong to the scrape at position s: those up
\* to the next scrape.
EventsAfter(s) ==
  { i \in 1..Len(events) :
      /\ s < i
      /\ \A t \in EventsOf({"scrape"}) : s < t => i < t }

C35_EveryIterationRemovesUrl ==
  [][/\ (mpc = "loop" /\ queue # << >>) =>
          \/ Len(queue') = Len(queue) - 1
          \/ mpc' \in {"onSuccess", "onError"} /\ url' = Head(queue)
     /\ mpc = "processed" =>
          /\ Len(queue') = Len(queue) - 1
          /\ url \notin UrlsIn(queue')]_vars

\* The scrapes whose outcome is one of a set.
ScrapesWith(outcomes) == { s \in EventsOf({"scrape"}) : events[s].detail \in outcomes }

\* The iteration of the current URL is over.
BetweenUrls == mpc \in {"processed", "loop", "sleep", "returned"}

\* C36: for every URL processed exactly one of onSuccess and onError is
\* called, once: onSuccess when its scrape returned a result and onError when
\* it rejected; succeeded counts the scrapes that returned and failed those
\* that rejected.
C36_OneCallbackPerUrl ==
  /\ \A s \in EventsOf({"scrape"}) :
       LET successes == EventsAfter(s) \cap EventsOf({"onSuccess"})
           failures  == EventsAfter(s) \cap EventsOf({"onError"})
           over      == BetweenUrls \/ \E t \in EventsOf({"scrape"}) : s < t
       IN /\ Cardinality(successes) + Cardinality(failures) <= 1
          /\ successes # {} => events[s].detail # "rejected"
          /\ failures # {} => events[s].detail = "rejected"
          /\ (over /\ events[s].detail # "rejected" /\ manyConfig.onSuccess # "absent") =>
               Cardinality(successes) = 1
          /\ (over /\ events[s].detail = "rejected" /\ manyConfig.onError # "absent") =>
               Cardinality(failures) = 1
  /\ BetweenUrls =>
       /\ succeededCount = Cardinality(ScrapesWith(ScrapeOutcomes \ {"rejected"}))
       /\ failedCount = Cardinality(ScrapesWith({"rejected"}))
  /\ mpc = "returned" =>
       /\ Get(manyReturned).succeeded = Cardinality(ScrapesWith(ScrapeOutcomes \ {"rejected"}))
       /\ Get(manyReturned).failed = Cardinality(ScrapesWith({"rejected"}))

\* C37: every stats snapshot handed to a callback balances: initial +
\* discovered = processed + remaining and processed = succeeded + failed.
C37_StatsBalance ==
  \A i \in EventsOf({"onSuccess", "onError"}) :
    LET snapshot == events[i].stats
    IN /\ snapshot.initial + snapshot.discovered = snapshot.processed + snapshot.remaining
       /\ snapshot.processed = snapshot.succeeded + snapshot.failed

\* The latest attempt obtained a response that its executor returned as a
\* result: no validator is configured, or the validator returned true.
ExecutorReturned ==
  /\ AttemptEnded
  /\ IsSome(received)
  /\ ~NoResponse(Get(received).value)
  /\ IsSome(validated) => Get(validated).returned = "true"

C39_ActionRunBeforeRejection ==
  /\ pc = "withRetryExhausted" => (IsSome(lastError) /\ Calls(index) >= 1)
  /\ pc = "scrapeCatch" =>
       /\ Calls(index) >= 1
       /\ Get(error).raisedBy = "attempt"
  /\ HasStrategies =>
       \A i \in 0..(Len(strategies) - 1) :
         \A h \in HooksOf("onRetryExhausted", i) \cup CaughtPositions(i) :
           \E f \in FnPositions(i) : f < h

====
